---- MODULE Spec2Model ----
(***************************************************************************)
(* Model of the fuschia workflow runtime (crates/fuschia-runtime and       *)
(* crates/fuschia-workflow): graph construction, workflow validation, the  *)
(* trigger runner, the ready-set scheduler loop of Runtime::invoke and the *)
(* per-node tasks it spawns.                                               *)
(***************************************************************************)
EXTENDS Integers, Sequences, FiniteSets, TLC

VARIABLES
  workflow,    \* Runtime.workflow: [nodes : id -> Node, edges : Seq(<<from, to>>)]
  cache,       \* Runtime.component_cache: the set of compiled component keys
  cancel,      \* the CancellationToken handed to invoke
  pc,          \* position of the invoke future
  payload,     \* the trigger payload handed to invoke
  completed,   \* invoke's local completed: node id -> NodeResult
  handles,     \* the JoinHandles of the current batch, in spawn order
  tasks,       \* every task spawned with tokio::spawn: node id -> task state
  result,      \* what invoke returned
  batches,     \* history: number of calls of execute_ready_nodes
  clock,       \* history: number of task completions so far
  cancelAt,    \* history: where invoke was when the token was cancelled
  trigCalls,   \* history: number of guest calls of the trigger component
  variant,     \* which ComponentCache implementation of the repository is in use
  entries,     \* ComponentCache.cache: ComponentKey -> compiled Component
  callers,     \* the threads that call ComponentCache::get_or_compile
  compiles,    \* history: number of calls of Component::from_file so far
  lock,        \* ComponentCache.cache: who holds the RwLock
  races,       \* history: clears, calls, and per key the misses and compiles since the last clear
  hosts,       \* the host state of each task or trigger invocation
  own,         \* history: what each invocation has itself written, per key
  got,         \* history: the last value a guest was handed by kv.get
  runner,      \* the WorkflowRunner: its workflow, its engine's cache, where start is
  queue,       \* the payloads buffered in the runner's mpsc channel
  senders,     \* the Sender handles handed out by sender(): how many, and the live ones
  token,       \* the CancellationToken passed to start
  exec,        \* the engine execution start is awaiting, and the tasks it spawned
  log,         \* history: the executions start has driven, in order
  nsent,       \* history: number of payloads sent into the channel so far
  events,      \* history: the events the engine handed to its notifier, in order
  call,        \* the arguments of a call of resolve_inputs or coerce_inputs
  rets,        \* history: what the calls made with these arguments returned
  store,       \* the wasmtime Store of one guest call and the engine's epoch
  trig,        \* one call of execute_trigger, and what invoke does with its outcome
  resolution   \* one call of StandardResolver::resolve: its definition, position and result

runtimeVars == <<workflow, cache, cancel, pc, payload, completed, handles, tasks,
                 result, batches, clock, cancelAt, trigCalls>>
cacheVars == <<variant, entries, callers, compiles, lock, races>>
kvVars == <<hosts, own, got>>
runnerVars == <<runner, queue, senders, token, exec, log, nsent, events>>
inputVars == <<call, rets>>
epochVars == <<store>>
triggerVars == <<trig>>
resolverVars == <<resolution>>
otherVars == <<cacheVars, kvVars, runnerVars, inputVars, epochVars, triggerVars, resolverVars>>
nonCacheVars == <<runtimeVars, kvVars, runnerVars, inputVars, epochVars, triggerVars, resolverVars>>
nonKvVars == <<runtimeVars, cacheVars, runnerVars, inputVars, epochVars, triggerVars, resolverVars>>
nonRunnerVars == <<runtimeVars, cacheVars, kvVars, inputVars, epochVars, triggerVars, resolverVars>>
nonInputVars == <<runtimeVars, cacheVars, kvVars, runnerVars, epochVars, triggerVars, resolverVars>>
nonEpochVars == <<runtimeVars, cacheVars, kvVars, runnerVars, inputVars, triggerVars, resolverVars>>
nonTriggerVars == <<runtimeVars, cacheVars, kvVars, runnerVars, inputVars, epochVars, resolverVars>>
nonResolverVars == <<runtimeVars, cacheVars, kvVars, runnerVars, inputVars, epochVars, triggerVars>>

vars == <<runtimeVars, otherVars>>

----------------------------------------------------------------------------
(* Bounds of the model *)

MaxEdges == 2      \* longest edge list of the small enumerated workflows
NumValues == 2     \* number of distinct scalar payloads / guest outputs
MaxInputCalls == 2 \* calls of resolve_inputs / coerce_inputs made with the same arguments
MaxTimeoutMs == 30 \* largest timeout_ms of a node
MaxTicks == 4      \* number of times the external ticker advances the engine's epoch
MaxChecks == 2     \* epoch checks a guest call passes before it returns

----------------------------------------------------------------------------
(* serde_json::Value, as far as the runtime looks into it *)

Null == [tag |-> "null", v |-> 0, m |-> {}]
Scalar(i) == [tag |-> "scalar", v |-> i, m |-> {}]
Object(pairs) == [tag |-> "object", v |-> 0, m |-> pairs]
Scalars == {Scalar(i) : i \in 1..NumValues}

EmptyMap == [x \in {} |-> Null]

----------------------------------------------------------------------------
(* Workflows the runtime is constructed with.  Runtime::new accepts any    *)
(* Workflow value, so ill-formed ones are included.                        *)

\* Node.max_retry_attempts: Option<u32>
NoAttempts == [some |-> FALSE, n |-> 0]
Attempts(n) == [some |-> TRUE, n |-> n]

\* A Node: its kind, whether it names a component, the strategy of a Join
\* ("-" for the other kinds), its retry cap and its fail_workflow flag.
Node(node_type, component, strategy) ==
  [node_type |-> node_type, component |-> component, strategy |-> strategy,
   max_retry_attempts |-> NoAttempts, fail_workflow |-> TRUE]

TriggerNode(c) == Node("Trigger", c, "-")
ComponentNode == Node("Component", TRUE, "-")
JoinNode == Node("Join", FALSE, "All")
LoopNode == Node("Loop", FALSE, "-")

\* a Join with strategy Any, and a Component that asks for retries and for
\* the workflow to go on when it fails
JoinAnyNode == [JoinNode EXCEPT !.strategy = "Any"]
RetryNode == [ComponentNode EXCEPT !.max_retry_attempts = Attempts(2), !.fail_workflow = FALSE]

NodeVariants == {TriggerNode(TRUE), TriggerNode(FALSE), ComponentNode, JoinNode, LoopNode}
TaskVariants == {ComponentNode, JoinNode, LoopNode}
PolicyVariants == {JoinAnyNode, RetryNode}

SeqsUpTo(S, n) == UNION {[1..k -> S] : k \in 0..n}

\* Every workflow over at most two node ids whose edge list has at most
\* MaxEdges entries; "g" is an id that is never a key of the node mapping.
SmallEndpoints == {"t", "a", "g"}
SmallWorkflows ==
  {[nodes |-> f, edges |-> e] :
     f \in UNION {[ids -> NodeVariants] : ids \in {{}, {"t"}, {"t", "a"}}},
     e \in SeqsUpTo(SmallEndpoints \X SmallEndpoints, MaxEdges)}

\* trigger -> a, b -> j (create_parallel_workflow of the tests) and
\* trigger -> a -> j with a second edge trigger -> j, with every kind of task
\* node, every join strategy and retry policy.
ParallelEdges == << <<"t", "a">>, <<"t", "b">>, <<"a", "j">>, <<"b", "j">> >>
SkipEdges == << <<"t", "a">>, <<"t", "j">>, <<"a", "j">> >>
ShapedWorkflows ==
  {[nodes |-> [n \in {"t", "a", "b", "j"} |-> IF n = "t" THEN TriggerNode(c) ELSE f[n]],
    edges |-> ParallelEdges] : c \in BOOLEAN, f \in [{"a", "b", "j"} -> TaskVariants]}
  \cup
  {[nodes |-> [n \in {"t", "a", "j"} |-> IF n = "t" THEN TriggerNode(c) ELSE f[n]],
    edges |-> SkipEdges] : c \in BOOLEAN, f \in [{"a", "j"} -> TaskVariants \cup PolicyVariants]}

\* trigger -> a -> c next to trigger -> b: c depends on one of two nodes that
\* are dispatched together.
StaggeredEdges == << <<"t", "a">>, <<"t", "b">>, <<"a", "c">> >>
StaggeredWorkflows ==
  {[nodes |-> [n \in {"t", "a", "b", "c"} |->
                 IF n = "t" THEN TriggerNode(c) ELSE IF n = "c" THEN v ELSE ComponentNode],
    edges |-> StaggeredEdges] : c \in BOOLEAN, v \in TaskVariants}

Workflows == SmallWorkflows \cup ShapedWorkflows \cup StaggeredWorkflows

----------------------------------------------------------------------------
(* fuschia-workflow: Graph *)

NodeIds(w) == DOMAIN w.nodes

RangeOf(s) == {s[i] : i \in 1..Len(s)}

\* Graph::new: adjacency and reverse adjacency hold one entry per edge, in
\* edge order, duplicates included; entry points are taken from the node keys.
Graph_new(nodes, edges) ==
  LET ids == DOMAIN nodes \cup {e[1] : e \in RangeOf(edges)} \cup {e[2] : e \in RangeOf(edges)}
      into(n) == SelectSeq(edges, LAMBDA e : e[2] = n)
      outof(n) == SelectSeq(edges, LAMBDA e : e[1] = n)
      rev == [n \in ids |-> [i \in 1..Len(into(n)) |-> into(n)[i][1]]]
      adj == [n \in ids |-> [i \in 1..Len(outof(n)) |-> outof(n)[i][2]]]
  IN [adjacency |-> adj,
      reverse_adjacency |-> rev,
      entry_points |-> {n \in DOMAIN nodes : Len(rev[n]) = 0},
      join_points |-> {n \in ids : Len(rev[n]) > 1}]

graph(w) == Graph_new(w.nodes, w.edges)

upstream(g, n) == IF n \in DOMAIN g.reverse_adjacency THEN g.reverse_adjacency[n] ELSE <<>>

downstream(g, n) == IF n \in DOMAIN g.adjacency THEN g.adjacency[n] ELSE <<>>

\* a join point taken to need more than two incoming edges
is_join_point_strict(g, n) == Len(upstream(g, n)) > 2

is_join_point(g, n) == n \in g.join_points

----------------------------------------------------------------------------
(* RuntimeError and the value invoke returns *)

NoNode == "-"
Error(kind, node, reason) == [kind |-> kind, node |-> node, reason |-> reason]
NoError == Error("none", NoNode, "none")
Cancelled == Error("Cancelled", NoNode, "cancelled")

NoResult == [status |-> "none", error |-> NoError, node_results |-> EmptyMap, via |-> "none"]
OkResult(m, via) == [status |-> "Ok", error |-> NoError, node_results |-> m, via |-> via]
ErrResult(e, via) == [status |-> "Err", error |-> e, node_results |-> EmptyMap, via |-> via]

NodeResult(id, input, resolved, output) ==
  [node_id |-> id, input |-> input, resolved_input |-> resolved, output |-> output]

----------------------------------------------------------------------------
(* Runtime: validation *)

find_trigger_nodes(w) == {n \in NodeIds(w) : w.nodes[n].node_type = "Trigger"}

\* validate_workflow accepting any positive number of triggers
validate_workflow_many(w) ==
  LET g == graph(w)
      orphans == {n \in g.entry_points : w.nodes[n].node_type # "Trigger"}
  IN IF Cardinality(find_trigger_nodes(w)) < 1
       THEN {Error("InvalidGraph", NoNode, "trigger_count")}
       ELSE IF orphans # {}
              THEN {Error("InvalidGraph", n, "orphan") : n \in orphans}
              ELSE {NoError}

\* validate_workflow without the entry point loop
validate_workflow_noorphan(w) ==
  IF Cardinality(find_trigger_nodes(w)) # 1
    THEN {Error("InvalidGraph", NoNode, "trigger_count")}
    ELSE {NoError}

\* validate_workflow: the set of values it can return.  The trigger count is
\* checked first; the entry points are then visited in the iteration order of
\* the node map, which is arbitrary, so any non-trigger entry point can be the
\* one that is reported.  The error message is kept as its reason and the
\* node id it interpolates.
validate_workflow(w) ==
  LET g == graph(w)
      orphans == {n \in g.entry_points : w.nodes[n].node_type # "Trigger"}
  IN IF Cardinality(find_trigger_nodes(w)) # 1
       THEN {Error("InvalidGraph", NoNode, "trigger_count")}
       ELSE IF orphans # {}
              THEN {Error("InvalidGraph", n, "orphan") : n \in orphans}
              ELSE {NoError}

----------------------------------------------------------------------------
(* Runtime: component loading *)

TaskKey == "task-component"
TriggerKey == "trigger-component"

\* load_component / load_trigger_component through ComponentCache::get_or_compile:
\* a cached key is a hit; otherwise the compile either fails, leaving the
\* cache as it was, or succeeds and inserts the key.
load_component(c, key) ==
  IF key \in c
    THEN {[ok |-> TRUE, cache |-> c]}
    ELSE {[ok |-> TRUE, cache |-> c \cup {key}], [ok |-> FALSE, cache |-> c]}

(* Runtime: the scheduler *)

\* find_ready_nodes requiring only one completed upstream node
find_ready_nodes_any(w, done) ==
  {n \in NodeIds(w) :
     /\ n \notin DOMAIN done
     /\ \/ upstream(graph(w), n) = <<>>
        \/ \E u \in RangeOf(upstream(graph(w), n)) : u \in DOMAIN done}

\* find_ready_nodes that never reports a join point
find_ready_nodes_nojoin(w, done) ==
  {n \in NodeIds(w) :
     /\ n \notin DOMAIN done
     /\ ~is_join_point(graph(w), n)
     /\ \A u \in RangeOf(upstream(graph(w), n)) : u \in DOMAIN done}

\* find_ready_nodes honouring the strategy of a join node: a Join node with
\* strategy Any is ready as soon as one of its upstream nodes has completed
find_ready_nodes_by_strategy(w, done) ==
  {n \in NodeIds(w) :
     /\ n \notin DOMAIN done
     /\ IF w.nodes[n].node_type = "Join" /\ w.nodes[n].strategy = "Any"
           THEN \E u \in RangeOf(upstream(graph(w), n)) : u \in DOMAIN done
           ELSE \A u \in RangeOf(upstream(graph(w), n)) : u \in DOMAIN done}

\* find_ready_nodes without the filter on completed
find_ready_nodes_again(w, done) ==
  {n \in NodeIds(w) : \A u \in RangeOf(upstream(graph(w), n)) : u \in DOMAIN done}

\* find_ready_nodes: the nodes not yet completed all of whose upstream ids are
\* keys of completed.
find_ready_nodes(w, done) ==
  {n \in NodeIds(w) :
     /\ n \notin DOMAIN done
     /\ \A u \in RangeOf(upstream(graph(w), n)) : u \in DOMAIN done}

\* The orders in which a set of node ids can come out of the node map.
Orders(S) ==
  {s \in [1..Cardinality(S) -> S] : \A i, j \in 1..Cardinality(S) : i # j => s[i] # s[j]}

\* the context always built as the object keyed by upstream node id
resolve_context_keyed(upstream_data, is_join) == {Object(upstream_data)}

\* the context of a call that is not a join taken to be empty whenever the
\* upstream data are not a single entry
resolve_context_strict(upstream_data, is_join) ==
  IF is_join
    THEN {Object(upstream_data)}
    ELSE IF Cardinality(upstream_data) = 1
           THEN {p[2] : p \in upstream_data}
           ELSE {Object({})}

\* resolve_inputs, lines 92-105: the template contexts the call can build
\* from the upstream data.  When is_join is false the context is
\* upstream_data.values().next(), the first value in the iteration order of
\* the HashMap, which is arbitrary: with several entries any of their values
\* can be the context.
resolve_context(upstream_data, is_join) ==
  IF is_join
    THEN {Object(upstream_data)}
    ELSE IF upstream_data = {}
           THEN {Object({})}
           ELSE {p[2] : p \in upstream_data}

\* execute_ready_nodes, lines 517-533: the input handed to a node.
task_input(upstream_data, is_join) ==
  IF is_join
    THEN Object(upstream_data)
    ELSE IF Cardinality(upstream_data) = 1
           THEN (CHOOSE p \in upstream_data : TRUE)[2]
           ELSE Null

\* execute_ready_nodes, lines 498-564: what is gathered for one ready node
\* before its task is spawned.
NewTask(w, n, done, batch) ==
  LET g == graph(w)
      upstream_ids == upstream(g, n)
      is_join == is_join_point(g, n)
      upstream_data == {<<u, done[u].output>> : u \in RangeOf(upstream_ids) \cap DOMAIN done}
      input == task_input(upstream_data, is_join)
  IN [node_id |-> n,
      batch |-> batch,
      status |-> "spawned",
      is_join |-> is_join,
      upstream_data |-> upstream_data,
      input |-> input,
      context |-> IF w.nodes[n].node_type = "Component"
                    THEN resolve_context(upstream_data, is_join) ELSE {},
      resolved_input |-> IF w.nodes[n].node_type = "Join" THEN input ELSE Null,
      error |-> NoError,
      output |-> Null,
      finishedAt |-> 0]

\* a failed resolution reported after the node's task was spawned
resolution_failure_spawned(n, spawned, c) ==
  [error |-> Error("InputResolution", n, "resolve"), spawned |-> Append(spawned, n), cache |-> c]

\* execute_ready_nodes, lines 536-544: resolve_inputs or coerce_inputs returned
\* an error for node n; the ? operator returns it before the TaskInput of n is
\* built, its component loaded or its task spawned.
resolution_failure(n, spawned, c) ==
  [error |-> Error("InputResolution", n, "resolve"), spawned |-> spawned, cache |-> c]

\* execute_ready_nodes: the ways the loop over the ready list can end.  A
\* Component node can fail input resolution (template render or coercion) or
\* component loading; the function then returns that error at once, after the
\* tasks of the earlier nodes of the list have been spawned.
RECURSIVE execute_ready_nodes(_, _, _, _)
execute_ready_nodes(w, ready, c, spawned) ==
  IF ready = <<>>
    THEN {[error |-> NoError, spawned |-> spawned, cache |-> c]}
    ELSE LET n == Head(ready) IN
         IF n \notin NodeIds(w)
           THEN {[error |-> Error("InvalidGraph", n, "not_found"), spawned |-> spawned, cache |-> c]}
           ELSE IF w.nodes[n].node_type = "Component"
                  THEN {resolution_failure(n, spawned, c)}
                       \cup
                       UNION {IF l.ok
                                THEN execute_ready_nodes(w, Tail(ready), l.cache, Append(spawned, n))
                                ELSE {[error |-> Error("ComponentLoad", n, "load"),
                                       spawned |-> spawned, cache |-> l.cache]} :
                              l \in load_component(c, TaskKey)}
                  ELSE execute_ready_nodes(w, Tail(ready), c, Append(spawned, n))

\* an executor that does not look at the token before it starts
entry_check_skipped(cancelled) == "run"

\* TaskExecutor::execute_inner, lines 84-86, and TriggerExecutor::execute_inner,
\* lines 74-76: the token is polled once, before the host state is created.
entry_check(cancelled) == IF cancelled THEN "cancelled" ELSE "run"

\* top of the loop without the is_cancelled poll
loop_top_nopoll(cancelled, ready) ==
  IF ready = {} THEN "break" ELSE "dispatch"

\* run_execution_loop, lines 290-298: the top of the loop.
loop_top(cancelled, ready) ==
  IF cancelled THEN "cancelled" ELSE IF ready = {} THEN "break" ELSE "dispatch"

\* result processing that reports the last failing handle
first_error_last(hs, ts) ==
  IF \E i \in 1..Len(hs) : ts[hs[i]].error # NoError
    THEN CHOOSE i \in 1..Len(hs) :
           /\ ts[hs[i]].error # NoError
           /\ \A j \in (i + 1)..Len(hs) : ts[hs[j]].error = NoError
    ELSE 0

\* run_execution_loop, lines 318-326: index of the first handle, in spawn
\* order, whose task returned an error; 0 when there is none.
first_error(hs, ts) ==
  IF \E i \in 1..Len(hs) : ts[hs[i]].error # NoError
    THEN CHOOSE i \in 1..Len(hs) :
           /\ ts[hs[i]].error # NoError
           /\ \A j \in 1..(i - 1) : ts[hs[j]].error = NoError
    ELSE 0

\* a wait that ends as soon as one of the handles has finished
join_all_first(hs, ts) == \E i \in 1..Len(hs) : ts[hs[i]].status = "finished"

\* futures::future::join_all(handles) is ready: every task of the batch has
\* finished.
join_all(hs, ts) == \A i \in 1..Len(hs) : ts[hs[i]].status = "finished"

\* result processing that forgets to insert
insert_results_none(done, hs, ts, upto) == done

\* run_execution_loop, line 335: completed after the results of the handles
\* 1..upto have been inserted.
insert_results(done, hs, ts, upto) ==
  [n \in DOMAIN done \cup {hs[i] : i \in 1..upto} |->
     IF n \in {hs[i] : i \in 1..upto}
       THEN NodeResult(n, ts[n].input, ts[n].resolved_input, ts[n].output)
       ELSE done[n]]

\* execute_join: the output of a join is the input it was handed.
execute_join(t) == t.input

\* execute_trigger, no component: the payload is passed through as the output
pass_through_null(tid, p) == NodeResult(tid, p, Null, Null)

\* execute_trigger, lines 436-445: the node result of a trigger without a
\* component.
pass_through(tid, p) == NodeResult(tid, p, Null, p)

\* execute_trigger, Pending: the payload recorded as the output
short_circuit_payload(tid, p) == NodeResult(tid, p, Null, p)

\* execute_trigger, lines 419-432: the node result recorded when the trigger
\* component returned Pending.
short_circuit(tid, p) == NodeResult(tid, p, Null, Null)

----------------------------------------------------------------------------
(* The subsystems that take no part in a run of invoke *)

NoCaller == [x \in {} |-> 0]

Unlocked == [readers |-> {}, writer |-> 0]

NoRaces == [clears |-> 0, calls |-> 0, missed |-> EmptyMap, compiled |-> EmptyMap]

CacheIdle ==
  /\ variant = "none"
  /\ entries = EmptyMap
  /\ callers = NoCaller
  /\ compiles = 0
  /\ lock = Unlocked
  /\ races = NoRaces

NoObservation == [invocation |-> 0, key |-> "-", value |-> [some |-> FALSE, value |-> ""]]

KvIdle ==
  /\ hosts = EmptyMap
  /\ own = EmptyMap
  /\ got = NoObservation

NoSenders == [handed |-> 0, live |-> {}]
NoExecution == [pc |-> "idle", completed |-> EmptyMap, handles |-> <<>>, tasks |-> EmptyMap]

RunnerIdle ==
  /\ runner = [pc |-> "none", workflow |-> [nodes |-> EmptyMap, edges |-> <<>>],
               cache |-> {}, result |-> "none", via |-> "none"]
  /\ queue = <<>>
  /\ senders = NoSenders
  /\ token = FALSE
  /\ exec = NoExecution
  /\ log = <<>>
  /\ nsent = 0
  /\ events = <<>>

NoArguments == [fn |-> "none"]

InputIdle ==
  /\ call = NoArguments
  /\ rets = <<>>

NoStore == [pc |-> "none"]

EpochIdle == store = NoStore

NoTrigger == [pc |-> "none"]

TriggerIdle == trig = NoTrigger

NoResolution == [pc |-> "none"]

ResolverIdle == resolution = NoResolution

RuntimeIdle ==
  /\ workflow = [nodes |-> EmptyMap, edges |-> <<>>]
  /\ cache = {}
  /\ cancel = FALSE
  /\ pc = "done"
  /\ payload = Null
  /\ completed = EmptyMap
  /\ handles = <<>>
  /\ tasks = EmptyMap
  /\ result = NoResult
  /\ batches = 0
  /\ clock = 0
  /\ cancelAt = [pc |-> "never", batches |-> 0]
  /\ trigCalls = 0

----------------------------------------------------------------------------
Init ==
  /\ workflow \in Workflows
  /\ cache = {}
  /\ cancel = FALSE
  /\ pc = "init"
  /\ payload = Null
  /\ completed = EmptyMap
  /\ handles = <<>>
  /\ tasks = EmptyMap
  /\ result = NoResult
  /\ batches = 0
  /\ clock = 0
  /\ cancelAt = [pc |-> "never", batches |-> 0]
  /\ trigCalls = 0
  /\ CacheIdle
  /\ KvIdle
  /\ RunnerIdle
  /\ InputIdle
  /\ EpochIdle
  /\ TriggerIdle
  /\ ResolverIdle

Return(r) ==
  /\ pc' = "done"
  /\ result' = r

\* Runtime::invoke up to its first await: validation, then execute_trigger up
\* to the guest call of the trigger component (or through it when the trigger
\* has no component).
Invoke ==
  /\ pc = "init"
  /\ \E p \in Scalars, v \in validate_workflow(workflow) :
       /\ payload' = p
       /\ IF v # NoError
            THEN /\ Return(ErrResult(v, "validate"))
                 /\ UNCHANGED <<cache, completed, trigCalls>>
            ELSE \E tid \in find_trigger_nodes(workflow) :
                   IF workflow.nodes[tid].component
                     THEN \E l \in load_component(cache, TriggerKey) :
                            /\ cache' = l.cache
                            /\ UNCHANGED completed
                            /\ IF ~l.ok
                                 THEN /\ Return(ErrResult(Error("ComponentLoad", tid, "load"), "trigger"))
                                      /\ UNCHANGED trigCalls
                                 ELSE IF entry_check(cancel) = "cancelled"
                                        THEN /\ Return(ErrResult(Cancelled, "trigger"))
                                             /\ UNCHANGED trigCalls
                                        ELSE /\ pc' = "trigger_call"
                                             /\ trigCalls' = trigCalls + 1
                                             /\ UNCHANGED result
                     ELSE /\ completed' = (tid :> pass_through(tid, p))
                          /\ pc' = "loop"
                          /\ UNCHANGED <<cache, result, trigCalls>>
  /\ UNCHANGED <<workflow, cancel, handles, tasks, batches, clock, cancelAt>>
  /\ UNCHANGED otherVars


\* execute_trigger after the guest export handle() of the trigger component
\* returned: Completed(data), Pending or an error.
TriggerReturn ==
  /\ pc = "trigger_call"
  /\ \E tid \in find_trigger_nodes(workflow), st \in {"Completed", "Pending", "Error"} :
       CASE st = "Completed" ->
              \E data \in Scalars :
                /\ completed' = (tid :> NodeResult(tid, payload, Null, data))
                /\ pc' = "loop"
                /\ UNCHANGED result
         [] st = "Pending" ->
              /\ Return(OkResult(tid :> short_circuit(tid, payload), "pending"))
              /\ UNCHANGED completed
         [] OTHER ->
              /\ Return(ErrResult(Error("ComponentExecution", tid, "guest"), "trigger"))
              /\ UNCHANGED completed
  /\ UNCHANGED <<workflow, cache, cancel, payload, handles, tasks, batches, clock,
                 cancelAt, trigCalls>>
  /\ UNCHANGED otherVars

\* One iteration of run_execution_loop from its top to the select!: the
\* cancellation poll, find_ready_nodes and execute_ready_nodes.
SchedulerStep ==
  /\ pc = "loop"
  /\ LET ready == find_ready_nodes(workflow, completed)
         top == loop_top(cancel, ready)
     IN CASE top = "cancelled" ->
               /\ Return(ErrResult(Cancelled, "top"))
               /\ UNCHANGED <<cache, handles, tasks, batches>>
          [] top = "break" ->
               /\ Return(OkResult(completed, "break"))
               /\ UNCHANGED <<cache, handles, tasks, batches>>
          [] OTHER ->
               \E order \in Orders(ready) :
                 \E o \in execute_ready_nodes(workflow, order, cache, <<>>) :
                   /\ batches' = batches + 1
                   /\ cache' = o.cache
                   /\ tasks' = [n \in RangeOf(o.spawned) |->
                                  NewTask(workflow, n, completed, batches + 1)] @@ tasks
                   /\ IF o.error = NoError
                        THEN /\ handles' = o.spawned
                             /\ pc' = "wait"
                             /\ UNCHANGED result
                        ELSE /\ Return(ErrResult(o.error, "spawn"))
                             /\ UNCHANGED handles
  /\ UNCHANGED <<workflow, cancel, payload, completed, clock, cancelAt, trigCalls>>
  /\ UNCHANGED otherVars

Finish(n, e, out) ==
  /\ tasks' = [tasks EXCEPT ![n].status = "finished", ![n].error = e, ![n].output = out,
                            ![n].finishedAt = clock + 1]
  /\ clock' = clock + 1

\* The body of a spawned task up to its first await: TaskExecutor::execute_inner
\* polls the token and then starts the guest call; a join, a trigger and a
\* loop node finish at once.
TaskStart ==
  /\ \E n \in DOMAIN tasks :
       /\ tasks[n].status = "spawned"
       /\ LET kind == workflow.nodes[n].node_type IN
          CASE kind = "Component" ->
                 IF entry_check(cancel) = "cancelled"
                   THEN Finish(n, Cancelled, Null)
                   ELSE /\ tasks' = [tasks EXCEPT ![n].status = "running"]
                        /\ UNCHANGED clock
            [] kind = "Join" -> Finish(n, NoError, execute_join(tasks[n]))
            [] kind = "Trigger" -> Finish(n, Error("InvalidGraph", n, "trigger_in_ready"), Null)
            [] OTHER -> Finish(n, Error("InvalidGraph", n, "loop_unimplemented"), Null)
  /\ UNCHANGED <<workflow, cache, cancel, pc, payload, completed, handles, result,
                 batches, cancelAt, trigCalls>>
  /\ UNCHANGED otherVars

\* The guest call of a task returns: an output that parses, an output that
\* does not, or a host error (trap, deadline, guest err).
TaskFinish ==
  /\ \E n \in DOMAIN tasks :
       /\ tasks[n].status = "running"
       /\ \/ \E out \in Scalars : Finish(n, NoError, out)
          \/ \E k \in {"ComponentExecution", "InvalidOutput"} : Finish(n, Error(k, n, "guest"), Null)
  /\ UNCHANGED <<workflow, cache, cancel, pc, payload, completed, handles, result,
                 batches, cancelAt, trigCalls>>
  /\ UNCHANGED otherVars

\* select!, first branch: join_all(handles) is ready; the results are
\* processed in handle order.
WaitResults ==
  /\ pc = "wait"
  /\ join_all(handles, tasks)
  /\ LET k == first_error(handles, tasks) IN
       IF k = 0
         THEN /\ completed' = insert_results(completed, handles, tasks, Len(handles))
              /\ pc' = "loop"
              /\ UNCHANGED result
         ELSE /\ completed' = insert_results(completed, handles, tasks, k - 1)
              /\ Return(ErrResult(tasks[handles[k]].error, "results"))
  /\ UNCHANGED <<workflow, cache, cancel, payload, handles, tasks, batches, clock,
                 cancelAt, trigCalls>>
  /\ UNCHANGED otherVars

\* select!, second branch: cancel.cancelled() is ready.  The handles are
\* dropped, which detaches the tasks.
WaitCancelled ==
  /\ pc = "wait"
  /\ cancel
  /\ Return(ErrResult(Cancelled, "select"))
  /\ UNCHANGED <<workflow, cache, cancel, payload, completed, handles, tasks, batches,
                 clock, cancelAt, trigCalls>>
  /\ UNCHANGED otherVars

\* The caller cancels the token.
Cancel ==
  /\ ~cancel
  /\ cancel' = TRUE
  /\ cancelAt' = [pc |-> pc, batches |-> batches]
  /\ UNCHANGED <<workflow, cache, pc, payload, completed, handles, tasks, result,
                 batches, clock, trigCalls>>
  /\ UNCHANGED otherVars

Next ==
  \/ Invoke
  \/ TriggerReturn
  \/ SchedulerStep
  \/ TaskStart
  \/ TaskFinish
  \/ WaitResults
  \/ WaitCancelled
  \/ Cancel

Spec == Init /\ [][Next]_vars

\* The scheduling the tokio executor provides: the invoke future and every
\* spawned task are polled whenever they can make progress, and every guest
\* call returns.  The caller is never obliged to cancel.
FairSpec ==
  /\ Spec
  /\ WF_vars(Invoke)
  /\ WF_vars(TriggerReturn)
  /\ WF_vars(SchedulerStep)
  /\ WF_vars(TaskStart)
  /\ WF_vars(TaskFinish)
  /\ WF_vars(WaitResults)
  /\ WF_vars(WaitCancelled)

----------------------------------------------------------------------------
(* Properties *)

Triggers == find_trigger_nodes(workflow)
Orphans == {n \in graph(workflow).entry_points : workflow.nodes[n].node_type # "Trigger"}
UpstreamSet(n) == RangeOf(upstream(graph(workflow), n))
Returned == pc = "done"
FailedInBatch ==
  {i \in 1..Len(handles) :
     tasks[handles[i]].status = "finished" /\ tasks[handles[i]].error # NoError}

\* C1: for every edge (u, v), once v has been dispatched u's result is in the
\* completed-set and the upstream data handed to v holds u's output.
C1_UpstreamBeforeDispatch ==
  \A e \in RangeOf(workflow.edges) :
    e[2] \in DOMAIN tasks =>
      /\ e[1] \in DOMAIN completed
      /\ <<e[1], completed[e[1]].output>> \in tasks[e[2]].upstream_data

C1_Witness ==
  /\ workflow.edges = SkipEdges
  /\ "j" \in DOMAIN tasks
  /\ tasks["j"].batch = 2
  /\ {p[1] : p \in tasks["j"].upstream_data} = {"t", "a"}


RECURSIVE ReachFrom(_, _, _)
ReachFrom(E, S, k) ==
  IF k = 0 THEN S
  ELSE ReachFrom(E, S \cup {e[2] : e \in {x \in E : x[1] \in S}}, k - 1)

\* acyclic, and every edge endpoint is a node
WellFormed(w) ==
  LET E == RangeOf(w.edges) IN
  /\ \A e \in E : e[1] \in NodeIds(w) /\ e[2] \in NodeIds(w)
  /\ \A n \in NodeIds(w) :
       n \notin ReachFrom(E, {e[2] : e \in {x \in E : x[1] = n}}, Cardinality(NodeIds(w)))

\* C2 (as claimed), on the workflows the resolver can produce: whenever invoke
\* returns Ok, the keys of the returned per-node result map are exactly the
\* workflow's node ids.
C2_Original ==
  (result.status = "Ok" /\ WellFormed(workflow)) =>
    DOMAIN result.node_results = NodeIds(workflow)

\* C2 (amended): whenever invoke returns Ok, the keys of the result map are
\* node ids and include the trigger, each key maps to the result of that node;
\* after a Pending trigger the trigger is the only key; otherwise no missing
\* node has all its predecessors among the keys, and the keys are all the
\* nodes when the workflow is acyclic with every edge endpoint a node.
C2_ResultKeys ==
  result.status = "Ok" =>
    LET keys == DOMAIN result.node_results IN
    /\ keys \subseteq NodeIds(workflow)
    /\ Triggers \subseteq keys
    /\ \A n \in keys : result.node_results[n].node_id = n
    /\ result.via = "pending" => keys = Triggers
    /\ result.via # "pending" =>
         /\ \A n \in NodeIds(workflow) \ keys : ~(UpstreamSet(n) \subseteq keys)
         /\ WellFormed(workflow) => keys = NodeIds(workflow)

C2_Witness ==
  /\ result.status = "Ok"
  /\ result.via = "break"
  /\ workflow.edges = ParallelEdges
  /\ DOMAIN result.node_results = {"t", "a", "b", "j"}

\* C3 (as claimed): when invoke returns from waiting on a batch in which some
\* task has returned an error, it returns the error of the task of the batch
\* that was the first to fail.
C3_Original ==
  [][(pc = "wait" /\ pc' = "done" /\ FailedInBatch # {}) =>
       \E i \in FailedInBatch :
         /\ \A j \in FailedInBatch : tasks[handles[i]].finishedAt <= tasks[handles[j]].finishedAt
         /\ result'.error = tasks[handles[i]].error]_vars

\* C3 (amended): when invoke returns from waiting on a batch in which some
\* task has returned an error, it returns an error and no node results: the
\* error of the failing task that comes first in spawn order when the results
\* are processed, Cancelled when the cancellation branch of the wait is taken;
\* and once invoke has returned nothing more is dispatched.
C3_FirstErrorInSpawnOrder ==
  [][/\ (pc = "wait" /\ pc' = "done" /\ FailedInBatch # {}) =>
          /\ result'.status = "Err"
          /\ result'.node_results = EmptyMap
          /\ IF result'.via = "select"
               THEN result'.error = Cancelled
               ELSE /\ result'.via = "results"
                    /\ \E i \in FailedInBatch :
                         /\ \A j \in FailedInBatch : i <= j
                         /\ result'.error = tasks[handles[i]].error
     /\ pc = "done" => (DOMAIN tasks' = DOMAIN tasks /\ batches' = batches)]_vars

C3_Witness ==
  /\ Returned
  /\ result.via = "results"
  /\ Len(handles) = 2
  /\ tasks[handles[1]].error # NoError
  /\ tasks[handles[2]].error # NoError
  /\ tasks[handles[2]].finishedAt < tasks[handles[1]].finishedAt
  /\ result.error = tasks[handles[1]].error

\* C4: under fair scheduling invoke returns; the loop breaks exactly when it is
\* not cancelled and no unfinished node has all its predecessors completed;
\* every wait on a batch ends in an error return or in a strictly larger
\* completed-set; and at most |nodes| batches are dispatched.
C4_Termination ==
  /\ <>Returned
  /\ [](batches <= Cardinality(NodeIds(workflow)))
  /\ [][/\ (pc = "loop" /\ pc' # "loop") =>
             ((pc' = "done" /\ result'.status = "Ok")
                <=> (~cancel /\ find_ready_nodes(workflow, completed) = {}))
        /\ (pc = "wait" /\ pc' # "wait") =>
             \/ pc' = "done" /\ result'.status = "Err"
             \/ /\ pc' = "loop"
                /\ DOMAIN completed \subseteq DOMAIN completed'
                /\ DOMAIN completed' # DOMAIN completed]_vars

C4_Witness ==
  /\ Returned
  /\ result.status = "Ok"
  /\ workflow.edges = ParallelEdges
  /\ batches = 2

\* C5: invoke fails with InvalidGraph whenever the number of Trigger nodes is
\* not exactly one, and a workflow that passes validation has exactly one
\* Trigger node and no entry point other than that trigger.
C5_ExactlyOneTrigger ==
  pc # "init" =>
    /\ Cardinality(Triggers) # 1 =>
         /\ Returned
         /\ result.status = "Err"
         /\ result.error.kind = "InvalidGraph"
    /\ result.via # "validate" =>
         /\ Cardinality(Triggers) = 1
         /\ graph(workflow).entry_points \subseteq Triggers

C5_Witness ==
  /\ Returned
  /\ Cardinality(Triggers) = 2
  /\ result.error.kind = "InvalidGraph"
  /\ result.error.reason = "trigger_count"

NothingExecuted ==
  /\ trigCalls = 0
  /\ completed = EmptyMap
  /\ tasks = EmptyMap

\* C6 (as claimed): whenever some entry point is not a Trigger, invoke fails
\* with an InvalidGraph error that names such an orphan node, and nothing is
\* executed.
C6_Original ==
  (pc # "init" /\ Orphans # {}) =>
    /\ Returned
    /\ result.status = "Err"
    /\ result.error.kind = "InvalidGraph"
    /\ result.error.node \in Orphans
    /\ NothingExecuted

\* C6 (amended): whenever some entry point is not a Trigger, invoke fails with
\* InvalidGraph and nothing is executed; the error names such an orphan node
\* when the workflow has exactly one Trigger node, and otherwise reports the
\* trigger count and names no node.
C6_OrphanRejected ==
  (pc # "init" /\ Orphans # {}) =>
    /\ Returned
    /\ result.status = "Err"
    /\ result.error.kind = "InvalidGraph"
    /\ NothingExecuted
    /\ IF Cardinality(Triggers) = 1
         THEN result.error.reason = "orphan" /\ result.error.node \in Orphans
         ELSE result.error.reason = "trigger_count" /\ result.error.node = NoNode

C6_Witness ==
  /\ Returned
  /\ Cardinality(Triggers) = 1
  /\ Orphans = {"a"}
  /\ result.error = Error("InvalidGraph", "a", "orphan")

DanglingEdge ==
  \E e \in RangeOf(workflow.edges) : e[1] \notin NodeIds(workflow) \/ e[2] \notin NodeIds(workflow)

\* C7: whenever an edge names a source or target that is not a key of the node
\* mapping, invoke fails with InvalidGraph.
C7_DanglingEdgeRejected ==
  (Returned /\ DanglingEdge) =>
    (result.status = "Err" /\ result.error.kind = "InvalidGraph")

\* C8: the output of every completed Join node is the object that maps each of
\* its predecessors to that predecessor's output.
C8_JoinOutputKeyed ==
  \A j \in DOMAIN completed :
    workflow.nodes[j].node_type = "Join" =>
      completed[j].output = Object({<<p, completed[p].output>> : p \in UpstreamSet(j) \cap DOMAIN completed})

\* C9 (as claimed): if the token is cancelled while invoke waits on a batch,
\* invoke returns Cancelled.
C9_Original ==
  (Returned /\ cancelAt.pc = "wait") => result.error = Cancelled

\* C9 (amended): if the token is cancelled while invoke waits on a batch,
\* invoke does not return Ok: it returns Cancelled, or the error of a task of
\* that batch when all its tasks had finished and their results are taken
\* first; and no batch is dispatched after the cancellation.
C9_CancelDuringWait ==
  cancelAt.pc = "wait" =>
    /\ batches = cancelAt.batches
    /\ \A n \in DOMAIN tasks : tasks[n].batch <= cancelAt.batches
    /\ Returned =>
         /\ result.status = "Err"
         /\ \/ result.error = Cancelled
            \/ /\ result.via = "results"
               /\ \E i \in FailedInBatch : result.error = tasks[handles[i]].error

C9_Witness ==
  /\ Returned
  /\ cancelAt.pc = "wait"
  /\ result.via = "top"
  /\ result.error = Cancelled

\* C10: once invoke has returned Cancelled, no spawned task starts its guest
\* call and no guest call in progress runs to its end.
C10_TasksDroppedOnCancel ==
  [][(Returned /\ result.error = Cancelled) =>
       \A n \in DOMAIN tasks :
         /\ ~(tasks[n].status = "spawned" /\ tasks'[n].status = "running")
         /\ ~(tasks[n].status = "running" /\ tasks'[n].status = "finished")]_vars

Valid(w) == validate_workflow(w) = {NoError}

\* C11 (as claimed): for every workflow that passes validation, if the token
\* is already cancelled when invoke is called, invoke returns Cancelled and no
\* non-trigger node is dispatched.
C11_Original ==
  (Returned /\ cancelAt.pc = "init" /\ Valid(workflow)) =>
    /\ result.error = Cancelled
    /\ tasks = EmptyMap
    /\ DOMAIN completed \subseteq Triggers

\* C11 (amended): for every workflow that passes validation, if the token is
\* already cancelled when invoke is called, then the trigger's guest is never
\* called, no node is dispatched, the completed-set holds at most the trigger,
\* and invoke returns an error: ComponentLoad when the trigger has a component
\* that fails to load, and Cancelled in every other case.
C11_ImmediateCancel ==
  (cancelAt.pc = "init" /\ Valid(workflow)) =>
    /\ trigCalls = 0
    /\ tasks = EmptyMap
    /\ batches = 0
    /\ DOMAIN completed \subseteq Triggers
    /\ Returned =>
         /\ result.status = "Err"
         /\ IF result.via = "trigger" /\ TriggerKey \notin cache
              THEN result.error.kind = "ComponentLoad" /\ result.error.node \in Triggers
              ELSE result.error = Cancelled

C11_Witness ==
  /\ Returned
  /\ cancelAt.pc = "init"
  /\ workflow.edges = ParallelEdges
  /\ ~workflow.nodes["t"].component
  /\ DOMAIN completed = {"t"}
  /\ result = ErrResult(Cancelled, "top")

\* C14: when the trigger component returns Pending, invoke returns Ok at once
\* with exactly one entry in the per-node result map, the trigger node with a
\* null output, and no other node is ever dispatched.
C14_PendingShortCircuit ==
  /\ [](result.via = "pending" =>
          /\ Returned
          /\ result.status = "Ok"
          /\ DOMAIN result.node_results = Triggers
          /\ Cardinality(DOMAIN result.node_results) = 1
          /\ \A t \in Triggers :
               /\ result.node_results[t].node_id = t
               /\ result.node_results[t].output = Null
               /\ workflow.nodes[t].component
          /\ trigCalls = 1
          /\ tasks = EmptyMap
          /\ batches = 0)
  /\ [][(pc = "trigger_call" /\ pc' = "done" /\ result'.status = "Ok") =>
          result'.via = "pending"]_vars

C14_Witness ==
  /\ result.via = "pending"
  /\ workflow.edges = ParallelEdges
  /\ payload = Scalar(NumValues)
  /\ result.node_results["t"].input = Scalar(NumValues)
  /\ result.node_results["t"].output = Null

TriggerWithoutComponent ==
  /\ Valid(workflow)
  /\ \A t \in Triggers : ~workflow.nodes[t].component

\* C15: when the trigger node has no component, then for every payload the
\* trigger node's output is the payload unchanged, the trigger's guest is never
\* called, and the execution goes on into the scheduler loop.
C15_TriggerPassThrough ==
  (pc # "init" /\ TriggerWithoutComponent) =>
    /\ trigCalls = 0
    /\ TriggerKey \notin cache
    /\ \A t \in Triggers :
         /\ t \in DOMAIN completed
         /\ completed[t].input = payload
         /\ completed[t].output = payload
         /\ result.status = "Ok" => result.node_results[t].output = payload
    /\ pc \in {"loop", "wait", "done"}
    /\ Returned => result.via \in {"top", "break", "spawn", "results", "select"}

C15_Witness ==
  /\ TriggerWithoutComponent
  /\ workflow.edges = SkipEdges
  /\ payload = Scalar(NumValues)
  /\ result.status = "Ok"
  /\ result.node_results["t"].output = Scalar(NumValues)
  /\ "a" \in DOMAIN result.node_results

----------------------------------------------------------------------------
(* ComponentCache: the compiled-component cache, called from several threads *)

NumCallers == 2    \* number of threads that call get_or_compile
MaxCalls == 3      \* number of calls of get_or_compile they make in all
MaxClears == 1     \* number of calls of clear

Variants == {"fuschia-workflow-runtime", "fuschia-workflow-executor"}
ComponentKeys == {"k1", "k2"}
Callers == 1..NumCallers

NoComponent == 0
NoCall == [status |-> "none", component |-> NoComponent, error |-> NoError]
IdleCaller == [pc |-> "idle", key |-> "k1", component |-> NoComponent, result |-> NoCall]

\* The error get_or_compile maps a failure of Component::from_file to.
compile_error(v, key) ==
  IF v = "fuschia-workflow-executor"
    THEN Error("ComponentLoad", key, "compile")
    ELSE Error("InvalidGraph", NoNode, "compile")

\* cache.insert(key, component): a HashMap insert replaces the entry of the key.
cache_insert(m, key, component) ==
  [k \in DOMAIN m \cup {key} |-> IF k = key THEN component ELSE m[k]]

\* a lookup that never finds the key
cache_get_miss(m, key) == [hit |-> FALSE, component |-> NoComponent]

\* cache.get(key) under the read lock
cache_get(m, key) ==
  IF key \in DOMAIN m
    THEN [hit |-> TRUE, component |-> m[key]]
    ELSE [hit |-> FALSE, component |-> NoComponent]

\* RwLock::read is granted when no writer holds the lock, RwLock::write when
\* nobody holds it.
can_read(l) == l.writer = 0
can_write(l) == l.writer = 0 /\ l.readers = {}

read_lock(l, c) == [l EXCEPT !.readers = @ \cup {c}]

\* the read guard kept when the lookup missed
read_unlock_on_hit(l, c, found) ==
  IF found.hit THEN [l EXCEPT !.readers = @ \ {c}] ELSE l

\* the end of the block of the read guard, lines 51-61: the guard is dropped
\* whether the lookup hit (the return inside the block) or missed.
read_unlock(l, c, found) == [l EXCEPT !.readers = @ \ {c}]

write_lock(l, c) == [l EXCEPT !.writer = c]
write_unlock(l, c) == [l EXCEPT !.writer = 0]

CacheInit ==
  /\ variant \in Variants
  /\ entries = EmptyMap
  /\ callers = [c \in Callers |-> IdleCaller]
  /\ compiles = 0
  /\ lock = Unlocked
  /\ races = [clears |-> 0, calls |-> 0,
              missed |-> [k \in ComponentKeys |-> 0],
              compiled |-> [k \in ComponentKeys |-> 0]]
  /\ RuntimeIdle
  /\ KvIdle
  /\ RunnerIdle
  /\ InputIdle
  /\ EpochIdle
  /\ TriggerIdle
  /\ ResolverIdle

\* A thread calls get_or_compile(engine, key, wasm_path).
CacheCall ==
  /\ races.calls < MaxCalls
  /\ \E c \in Callers, k \in ComponentKeys :
       /\ callers[c].pc \in {"idle", "done"}
       /\ callers' = [callers EXCEPT ![c] = [pc |-> "read", key |-> k, component |-> NoComponent,
                                             result |-> NoCall]]
  /\ races' = [races EXCEPT !.calls = @ + 1]
  /\ UNCHANGED <<variant, entries, compiles, lock, nonCacheVars>>

\* what the caller does with the result of the lookup
after_lookup(caller, found) ==
  IF found.hit
    THEN [caller EXCEPT !.pc = "done",
                        !.result = [status |-> "Ok", component |-> found.component,
                                    error |-> NoError]]
    ELSE [caller EXCEPT !.pc = "compile"]

missed_lookup(r, key, found) ==
  IF found.hit THEN r ELSE [r EXCEPT !.missed[key] = @ + 1]

\* get_or_compile, the block under the read lock: a hit returns a clone of the
\* cached component.  The block runs as one step: while the guard is held no
\* writer can run, and other readers do not change the map.
CacheRead ==
  /\ \E c \in Callers :
       /\ callers[c].pc = "read"
       /\ can_read(lock)
       /\ \E found \in {cache_get(entries, callers[c].key)} :
            /\ callers' = [callers EXCEPT ![c] = after_lookup(callers[c], found)]
            /\ lock' = read_unlock(read_lock(lock, c), c, found)
            /\ races' = missed_lookup(races, callers[c].key, found)
  /\ UNCHANGED <<variant, entries, compiles, nonCacheVars>>

\* get_or_compile, Component::from_file outside of any lock: it yields a new
\* compiled component, or fails and get_or_compile returns the mapped error.
CacheCompile ==
  /\ \E c \in Callers, ok \in BOOLEAN :
       /\ callers[c].pc = "compile"
       /\ compiles' = compiles + 1
       /\ races' = [races EXCEPT !.compiled[callers[c].key] = @ + 1]
       /\ callers' = [callers EXCEPT ![c] =
                        IF ok
                          THEN [callers[c] EXCEPT !.pc = "write", !.component = compiles + 1]
                          ELSE [callers[c] EXCEPT
                                  !.pc = "done",
                                  !.result = [status |-> "Err", component |-> NoComponent,
                                              error |-> compile_error(variant, callers[c].key)]]]
  /\ UNCHANGED <<variant, entries, lock, nonCacheVars>>

\* get_or_compile, the block under the write lock and the return of the
\* caller's own component.
CacheWrite ==
  /\ \E c \in Callers :
       /\ callers[c].pc = "write"
       /\ can_write(lock)
       /\ lock' = write_unlock(write_lock(lock, c), c)
       /\ entries' = cache_insert(entries, callers[c].key, callers[c].component)
       /\ callers' = [callers EXCEPT ![c] =
                        [callers[c] EXCEPT
                           !.pc = "done",
                           !.result = [status |-> "Ok", component |-> callers[c].component,
                                       error |-> NoError]]]
  /\ UNCHANGED <<variant, compiles, races, nonCacheVars>>

\* the callers that have missed key k and have not compiled yet
still_to_compile(cs, k) == Cardinality({c \in DOMAIN cs : cs[c].pc = "compile" /\ cs[c].key = k})

\* ComponentCache::clear, called by any thread: the map is emptied under the
\* write lock.  The history starts a new period, in which the callers that
\* missed a key before the clear and have yet to compile count as its misses.
CacheClear ==
  /\ races.clears < MaxClears
  /\ can_write(lock)
  /\ entries' = EmptyMap
  /\ races' = [races EXCEPT !.clears = @ + 1,
                            !.missed = [k \in ComponentKeys |-> still_to_compile(callers, k)],
                            !.compiled = [k \in ComponentKeys |-> 0]]
  /\ UNCHANGED <<variant, callers, compiles, lock, nonCacheVars>>

CacheNext ==
  \/ CacheCall
  \/ CacheRead
  \/ CacheCompile
  \/ CacheWrite
  \/ CacheClear

CacheSpec == CacheInit /\ [][CacheNext]_vars

\* C12: when two callers have raced on the same absent key, each compiling the
\* component, both calls return Ok, both return the component the cache holds
\* for the key, and no more than two compiles were made for the race.
C12_RaceSameHandle ==
  \A c1, c2 \in Callers :
    (/\ c1 # c2
     /\ callers[c1].pc = "done" /\ callers[c2].pc = "done"
     /\ callers[c1].key = callers[c2].key
     /\ callers[c1].component # NoComponent /\ callers[c2].component # NoComponent)
    => /\ callers[c1].result.status = "Ok" /\ callers[c2].result.status = "Ok"
       /\ callers[c1].key \in DOMAIN entries
       /\ callers[c1].result.component = entries[callers[c1].key]
       /\ callers[c2].result.component = entries[callers[c2].key]

\* C13: whenever the compile of a call fails, get_or_compile returns a
\* ComponentLoad error and the cache contents are what they were.
C13_CompileFailure ==
  [][\A c \in Callers :
       (callers[c].pc = "compile" /\ callers'[c].pc = "done") =>
         /\ callers'[c].result.status = "Err"
         /\ callers'[c].result.error.kind = "ComponentLoad"
         /\ entries' = entries]_vars

----------------------------------------------------------------------------
(* The key-value scratchpad of the task and trigger hosts *)

NumInvocations == 2   \* number of task or trigger invocations

Invocations == 1..NumInvocations
Components == {"task-component", "trigger-component"}
KvKeys == {"x", "y"}
KvValues == {"v1", "v2"}

None == [some |-> FALSE, value |-> ""]
Some(v) == [some |-> TRUE, value |-> v]

\* InMemoryKvStore::new: an empty map.
InMemoryKvStore_new == [k \in {} |-> ""]

\* InMemoryKvStore::get
kv_get(data, key) == IF key \in DOMAIN data THEN Some(data[key]) ELSE None

\* InMemoryKvStore::set
kv_set(data, key, value) == [k \in DOMAIN data \cup {key} |-> IF k = key THEN value ELSE data[k]]

\* InMemoryKvStore::delete
kv_delete(data, key) == [k \in DOMAIN data \ {key} |-> data[k]]

\* host state whose store is the one of the first invocation
HostState_kv_shared(hs, i) == hs[1].kv

\* self.inner.kv of the host state of invocation i: the store its kv imports
\* work on.
HostState_kv(hs, i) == hs[i].kv

NoHost == [status |-> "none", component |-> "task-component", kv |-> InMemoryKvStore_new]

KvInit ==
  /\ hosts = [i \in Invocations |-> NoHost]
  /\ own = [i \in Invocations |-> InMemoryKvStore_new]
  /\ got = NoObservation
  /\ RuntimeIdle
  /\ CacheIdle
  /\ RunnerIdle
  /\ InputIdle
  /\ EpochIdle
  /\ TriggerIdle
  /\ ResolverIdle

\* TaskHostState::new / TriggerHostState::new in execute_inner: an invocation
\* begins with a host state of its own.
HostNew ==
  /\ \E i \in Invocations, c \in Components :
       /\ hosts[i].status = "none"
       /\ hosts' = [hosts EXCEPT ![i] = [status |-> "running", component |-> c,
                                        kv |-> InMemoryKvStore_new]]
  /\ UNCHANGED <<own, got, nonKvVars>>

\* The guest of a running invocation calls kv.set.
KvSet ==
  /\ \E i \in Invocations, k \in KvKeys, v \in KvValues :
       /\ hosts[i].status = "running"
       /\ hosts' = [hosts EXCEPT ![i].kv = kv_set(HostState_kv(hosts, i), k, v)]
       /\ own' = [own EXCEPT ![i] = kv_set(own[i], k, v)]
  /\ UNCHANGED <<got, nonKvVars>>

\* The guest of a running invocation calls kv.delete.
KvDelete ==
  /\ \E i \in Invocations, k \in KvKeys :
       /\ hosts[i].status = "running"
       /\ hosts' = [hosts EXCEPT ![i].kv = kv_delete(HostState_kv(hosts, i), k)]
       /\ own' = [own EXCEPT ![i] = kv_delete(own[i], k)]
  /\ UNCHANGED <<got, nonKvVars>>

\* The guest of a running invocation calls kv.get.
KvGet ==
  /\ \E i \in Invocations, k \in KvKeys :
       /\ hosts[i].status = "running"
       /\ got' = [invocation |-> i, key |-> k, value |-> kv_get(HostState_kv(hosts, i), k)]
  /\ UNCHANGED <<hosts, own, nonKvVars>>

\* execute_task / execute_trigger returns: the Store and its host state are
\* dropped.
HostDrop ==
  /\ \E i \in Invocations :
       /\ hosts[i].status = "running"
       /\ hosts' = [hosts EXCEPT ![i] = [status |-> "ended", component |-> hosts[i].component,
                                        kv |-> InMemoryKvStore_new]]
       /\ own' = [own EXCEPT ![i] = InMemoryKvStore_new]
  /\ UNCHANGED <<got, nonKvVars>>

KvNext ==
  \/ HostNew
  \/ KvSet
  \/ KvDelete
  \/ KvGet
  \/ HostDrop

KvSpec == KvInit /\ [][KvNext]_vars

----------------------------------------------------------------------------
(* WorkflowRunner and the WorkflowEngine it drives *)

Capacity == 2       \* buffer_size of the runner's channel
MaxPayloads == 3    \* number of payloads sent into the channel
MaxSenders == 1     \* number of Sender handles handed out by sender()

\* The workflows of the runner: the empty workflow of the runner's tests, a
\* lone trigger, trigger -> a with every kind of task node, trigger -> a and
\* trigger -> b, and a trigger with an orphan node.
RunnerWorkflows ==
  {[nodes |-> EmptyMap, edges |-> <<>>],
   [nodes |-> ("t" :> TriggerNode(FALSE)), edges |-> <<>>],
   [nodes |-> ("t" :> TriggerNode(FALSE)) @@ ("a" :> ComponentNode), edges |-> <<>>],
   [nodes |-> ("t" :> TriggerNode(FALSE)) @@ ("a" :> ComponentNode) @@ ("b" :> JoinNode),
    edges |-> << <<"t", "a">>, <<"t", "b">> >>]}
  \cup
  {[nodes |-> ("t" :> TriggerNode(FALSE)) @@ ("a" :> v), edges |-> << <<"t", "a">> >>] :
     v \in TaskVariants}

\* WorkflowEngine::validate_workflow: every entry point must be a trigger.
engine_validate_workflow(w) ==
  LET orphans == {n \in graph(w).entry_points : w.nodes[n].node_type # "Trigger"}
  IN IF orphans # {}
       THEN {Error("InvalidGraph", n, "orphan") : n \in orphans}
       ELSE {NoError}

\* WorkflowEngine::initialize_triggers: every trigger node completes with the
\* payload; a workflow without a trigger is an error.
initialize_triggers(w, p) ==
  IF find_trigger_nodes(w) = {}
    THEN [error |-> Error("InvalidGraph", NoNode, "no_trigger"), completed |-> EmptyMap]
    ELSE [error |-> NoError, completed |-> [t \in find_trigger_nodes(w) |-> p]]

\* WorkflowEngine::execute_ready_nodes: prepare_node_execution loads the
\* component of a Component node and can fail, after the tasks of the earlier
\* nodes of the list have been spawned.
RECURSIVE engine_execute_ready_nodes(_, _, _, _)
engine_execute_ready_nodes(w, ready, c, spawned) ==
  IF ready = <<>>
    THEN {[error |-> NoError, spawned |-> spawned, cache |-> c]}
    ELSE LET n == Head(ready) IN
         IF w.nodes[n].node_type = "Component"
           THEN UNION {IF l.ok
                         THEN engine_execute_ready_nodes(w, Tail(ready), l.cache, Append(spawned, n))
                         ELSE {[error |-> Error("ComponentLoad", n, "load"),
                                spawned |-> spawned, cache |-> l.cache]} :
                       l \in load_component(c, TaskKey)}
           ELSE engine_execute_ready_nodes(w, Tail(ready), c, Append(spawned, n))

\* ExecutionEvent, as the engine builds it before the execution id is filled
\* in; node_id is "-" for the events of the workflow.
Event(kind, node_id) == [kind |-> kind, node_id |-> node_id]
WorkflowStarted == Event("WorkflowStarted", "-")
WorkflowCompleted == Event("WorkflowCompleted", "-")
WorkflowFailed == Event("WorkflowFailed", "-")

\* the events evs as the notifier receives them from the execution with id
notified(evs, id) ==
  [i \in 1..Len(evs) |-> [kind |-> evs[i].kind, node_id |-> evs[i].node_id, execution_id |-> id]]

\* run_execution_loop, lines 144-150: a NodeStarted per ready node, before
\* any of them is prepared or spawned.
node_started(ready) == [i \in 1..Len(ready) |-> Event("NodeStarted", ready[i])]

\* run_execution_loop, lines 177-183: the node id of a NodeFailed event.
failed_node_id(e) ==
  IF e.kind \in {"InputResolution", "ComponentExecution", "Timeout", "ComponentLoad"}
    THEN e.node
    ELSE "unknown"

\* run_execution_loop, lines 160-192: the events of result processing, which
\* stops at the handle k of the first error (k = 0: there is none).
result_events(hs, ts, k) ==
  IF k = 0
    THEN [i \in 1..Len(hs) |-> Event("NodeCompleted", hs[i])]
    ELSE [i \in 1..k |->
            IF i < k
              THEN Event("NodeCompleted", hs[i])
              ELSE Event("NodeFailed", failed_node_id(ts[hs[k]].error))]

\* an execute that reports every end of the loop as a completion
final_event_completed(e) == WorkflowCompleted

\* execute, lines 108-121: the event for the result of run_execution_loop.
final_event(e) == IF e = NoError THEN WorkflowCompleted ELSE WorkflowFailed

\* the outcome o of a stretch of run_execution_loop, preceded by the events
\* evs; when the loop has returned, execute emits the final event.
engine_events(evs, o) ==
  [o EXCEPT !.events = IF o.kind = "return"
                         THEN Append(evs \o @, final_event(o.error))
                         ELSE evs \o @]

\* run_execution_loop without the is_cancelled poll at the top of the loop
engine_loop_nopoll(w, done, cancelled, c) ==
  LET ready == find_ready_nodes(w, done) IN
  IF ready = {}
    THEN {[kind |-> "return", error |-> NoError, spawned |-> <<>>, cache |-> c,
           completed |-> done, events |-> <<>>]}
    ELSE UNION {{[kind |-> IF o.error = NoError THEN "wait" ELSE "return",
                  error |-> o.error, spawned |-> o.spawned, cache |-> o.cache,
                  completed |-> done, events |-> node_started(order)] :
                 o \in engine_execute_ready_nodes(w, order, c, <<>>)} : order \in Orders(ready)}

\* WorkflowEngine::run_execution_loop from the top of the loop to the select!:
\* the ways it can return or come to wait on a batch.
engine_loop(w, done, cancelled, c) ==
  LET ready == find_ready_nodes(w, done) IN
  IF cancelled
    THEN {[kind |-> "return", error |-> Cancelled, spawned |-> <<>>, cache |-> c,
           completed |-> done, events |-> <<>>]}
    ELSE IF ready = {}
           THEN {[kind |-> "return", error |-> NoError, spawned |-> <<>>, cache |-> c,
                  completed |-> done, events |-> <<>>]}
           ELSE UNION {{[kind |-> IF o.error = NoError THEN "wait" ELSE "return",
                         error |-> o.error, spawned |-> o.spawned, cache |-> o.cache,
                         completed |-> done, events |-> node_started(order)] :
                        o \in engine_execute_ready_nodes(w, order, c, <<>>)} :
                       order \in Orders(ready)}

\* WorkflowEngine::execute up to its first await: validation returns with
\* `?` before any event, initialize_triggers returns with `?` after
\* WorkflowStarted, and the result of run_execution_loop goes through the
\* match that emits the final event.
engine_execute(w, p, cancelled, c) ==
  UNION {IF v # NoError
           THEN {[kind |-> "return", error |-> v, spawned |-> <<>>, cache |-> c,
                  completed |-> EmptyMap, events |-> <<>>]}
           ELSE IF initialize_triggers(w, p).error # NoError
                  THEN {[kind |-> "return", error |-> initialize_triggers(w, p).error,
                         spawned |-> <<>>, cache |-> c, completed |-> EmptyMap,
                         events |-> <<WorkflowStarted>>]}
                  ELSE {engine_events(<<WorkflowStarted>>, o) :
                        o \in engine_loop(w, initialize_triggers(w, p).completed, cancelled, c)} :
         v \in engine_validate_workflow(w)}

\* a channel that never makes a sender wait
has_capacity_unbounded(q) == TRUE

\* mpsc::Sender::send on the channel made by mpsc::channel(buffer_size): the
\* send completes when the buffer has a free slot and waits otherwise.
has_capacity(q) == Len(q) < Capacity

\* a channel that hands out the payload sent last
recv_last(q) == [payload |-> q[Len(q)], rest |-> SubSeq(q, 1, Len(q) - 1)]

\* mpsc::Receiver::recv on a channel that holds a payload: the one sent first.
recv(q) == [payload |-> Head(q), rest |-> Tail(q)]

\* a start that leaves its loop when an execution fails
after_execution_stop(outcome) == IF outcome = "Err" THEN "returned" ELSE "select"

\* start, lines 116-138: every arm of the match on the result of execute only
\* logs, and the loop goes round to the select!.
after_execution(outcome) == "select"

\* How start's match on the result of execute sees an execution end.
outcome_of(e) == IF e = NoError THEN "Ok" ELSE IF e = Cancelled THEN "Cancelled" ELSE "Err"

SpawnedTask == [status |-> "spawned", error |-> NoError]
Unfinished(ts) == [n \in {m \in DOMAIN ts : ts[m].status # "finished"} |-> ts[n]]

\* The sender handles that keep the channel open: the clones handed out and
\* the runner's own sender field, which lives as long as the runner does.
live_senders(r, sn) == Cardinality(sn.live) + (IF r.pc = "returned" THEN 0 ELSE 1)

RunnerInit ==
  /\ runner \in {[pc |-> "created", workflow |-> w, cache |-> {}, result |-> "none",
                  via |-> "none"] : w \in RunnerWorkflows}
  /\ queue = <<>>
  /\ senders = NoSenders
  /\ token = FALSE
  /\ exec = NoExecution
  /\ log = <<>>
  /\ nsent = 0
  /\ events = <<>>
  /\ RuntimeIdle
  /\ CacheIdle
  /\ KvIdle
  /\ InputIdle
  /\ EpochIdle
  /\ TriggerIdle
  /\ ResolverIdle

\* The execution start is awaiting moves on with outcome o of the engine.
Proceed(o, lg) ==
  LET ts == [n \in RangeOf(o.spawned) |-> SpawnedTask] @@ exec.tasks
      last == [lg[Len(lg)] EXCEPT !.spawned = @ + Len(o.spawned)]
  IN /\ events' = events \o notified(o.events, Len(lg))
     /\ IF o.kind = "wait"
          THEN /\ exec' = [pc |-> "wait", completed |-> o.completed, handles |-> o.spawned,
                           tasks |-> ts]
               /\ runner' = [runner EXCEPT !.pc = "wait", !.cache = o.cache]
               /\ log' = [lg EXCEPT ![Len(lg)] = last]
          ELSE /\ exec' = [pc |-> "idle", completed |-> EmptyMap, handles |-> <<>>,
                           tasks |-> Unfinished(ts)]
               /\ runner' = [runner EXCEPT !.pc = after_execution(outcome_of(o.error)),
                                            !.cache = o.cache]
               /\ log' = [lg EXCEPT ![Len(lg)] = [last EXCEPT !.outcome = outcome_of(o.error)]]

\* WorkflowRunner::sender: a clone of the sender is handed out.
RunnerSender ==
  /\ runner.pc = "created"
  /\ senders.handed < MaxSenders
  /\ senders' = [handed |-> senders.handed + 1, live |-> senders.live \cup {senders.handed + 1}]
  /\ UNCHANGED <<runner, queue, token, exec, log, nsent, events, nonRunnerVars>>

\* WorkflowRunner::run: the payload is sent through the runner's own sender.
RunnerRun ==
  /\ runner.pc = "created"
  /\ has_capacity(queue)
  /\ nsent < MaxPayloads
  /\ queue' = Append(queue, nsent + 1)
  /\ nsent' = nsent + 1
  /\ UNCHANGED <<runner, senders, token, exec, log, events, nonRunnerVars>>

\* WorkflowRunner::start is called and reaches its select!.
RunnerStart ==
  /\ runner.pc = "created"
  /\ runner' = [runner EXCEPT !.pc = "select"]
  /\ UNCHANGED <<queue, senders, token, exec, log, nsent, events, nonRunnerVars>>

\* start, select! branch cancel.cancelled(): the loop is left.
StartCancelled ==
  /\ runner.pc = "select"
  /\ token
  /\ runner' = [runner EXCEPT !.pc = "returned", !.result = "Ok", !.via = "cancelled"]
  /\ UNCHANGED <<queue, senders, token, exec, log, nsent, events, nonRunnerVars>>

\* start, select! branch self.receiver.recv(): a payload is taken and the
\* engine executes the workflow under a child token up to its first await, or
\* the channel is closed and the loop is left.
StartRecv ==
  /\ runner.pc = "select"
  /\ queue # <<>> \/ live_senders(runner, senders) = 0
  /\ IF queue # <<>>
       THEN /\ queue' = recv(queue).rest
            /\ \E o \in engine_execute(runner.workflow, recv(queue).payload, token, runner.cache) :
                 Proceed(o, Append(log, [payload |-> recv(queue).payload, outcome |-> "running",
                                         late |-> token, spawned |-> 0]))
       ELSE /\ runner' = [runner EXCEPT !.pc = "returned", !.result = "Ok", !.via = "closed"]
            /\ UNCHANGED <<queue, exec, log, events>>
  /\ UNCHANGED <<senders, token, nsent, nonRunnerVars>>

EngineFinish(n, e) ==
  exec' = [exec EXCEPT !.tasks[n] = [status |-> "finished", error |-> e]]

\* run_node up to its first await: run_component polls the token and then
\* resolves its inputs and starts the guest call; the other kinds of node
\* return at once.
EngineTaskStart ==
  /\ \E n \in DOMAIN exec.tasks :
       /\ exec.tasks[n].status = "spawned"
       /\ LET kind == runner.workflow.nodes[n].node_type IN
          CASE kind = "Component" ->
                 IF token
                   THEN EngineFinish(n, Cancelled)
                   ELSE exec' = [exec EXCEPT !.tasks[n].status = "running"]
            [] kind = "Join" -> EngineFinish(n, NoError)
            [] kind = "Trigger" -> EngineFinish(n, Error("InvalidGraph", n, "trigger_in_ready"))
            [] OTHER -> EngineFinish(n, Error("InvalidGraph", n, "loop_unimplemented"))
  /\ UNCHANGED <<runner, queue, senders, token, log, nsent, events, nonRunnerVars>>

\* run_component after its first await: input resolution failed, or the
\* guest call returned an output or an error.
EngineTaskFinish ==
  /\ \E n \in DOMAIN exec.tasks :
       /\ exec.tasks[n].status = "running"
       /\ \E e \in {NoError, Error("InputResolution", n, "resolve"),
                    Error("ComponentExecution", n, "guest")} :
            EngineFinish(n, e)
  /\ UNCHANGED <<runner, queue, senders, token, log, nsent, events, nonRunnerVars>>

\* run_execution_loop, select! branch join_all(handles): the results are
\* processed in handle order and the loop goes round.
EngineWaitResults ==
  /\ runner.pc = "wait"
  /\ join_all(exec.handles, exec.tasks)
  /\ LET k == first_error(exec.handles, exec.tasks)
         done == [n \in DOMAIN exec.completed \cup RangeOf(exec.handles) |->
                    IF n \in DOMAIN exec.completed THEN exec.completed[n] ELSE 0]
         evs == result_events(exec.handles, exec.tasks, k)
     IN IF k = 0
          THEN \E o \in engine_loop(runner.workflow, done, token, runner.cache) :
                 Proceed(engine_events(evs, o), log)
          ELSE Proceed(engine_events(evs,
                         [kind |-> "return", error |-> exec.tasks[exec.handles[k]].error,
                          spawned |-> <<>>, cache |-> runner.cache, completed |-> EmptyMap,
                          events |-> <<>>]), log)
  /\ UNCHANGED <<queue, senders, token, nsent, nonRunnerVars>>

\* run_execution_loop, select! branch cancel.cancelled(): execute returns
\* Cancelled and the handles are dropped.
EngineWaitCancelled ==
  /\ runner.pc = "wait"
  /\ token
  /\ Proceed(engine_events(<<>>,
               [kind |-> "return", error |-> Cancelled, spawned |-> <<>>, cache |-> runner.cache,
                completed |-> EmptyMap, events |-> <<>>]), log)
  /\ UNCHANGED <<queue, senders, token, nsent, nonRunnerVars>>

\* A holder of a Sender handle sends a payload; the send waits while the
\* buffer is full.
SenderSend ==
  /\ senders.live # {}
  /\ runner.pc # "returned"
  /\ has_capacity(queue)
  /\ nsent < MaxPayloads
  /\ queue' = Append(queue, nsent + 1)
  /\ nsent' = nsent + 1
  /\ UNCHANGED <<runner, senders, token, exec, log, events, nonRunnerVars>>

\* A holder of a Sender handle drops it.
SenderDrop ==
  /\ \E h \in senders.live : senders' = [senders EXCEPT !.live = @ \ {h}]
  /\ UNCHANGED <<runner, queue, token, exec, log, nsent, events, nonRunnerVars>>

\* The owner of the outer token cancels it.
TokenCancel ==
  /\ ~token
  /\ token' = TRUE
  /\ UNCHANGED <<runner, queue, senders, exec, log, nsent, events, nonRunnerVars>>

RunnerNext ==
  \/ RunnerSender
  \/ RunnerRun
  \/ RunnerStart
  \/ StartCancelled
  \/ StartRecv
  \/ EngineTaskStart
  \/ EngineTaskFinish
  \/ EngineWaitResults
  \/ EngineWaitCancelled
  \/ SenderSend
  \/ SenderDrop
  \/ TokenCancel

RunnerSpec == RunnerInit /\ [][RunnerNext]_vars

\* The scheduling of the tokio executor: start and the spawned tasks are
\* polled whenever they can make progress, every guest call returns, and a
\* select! with a ready branch takes one.  Nobody is obliged to send, to drop
\* a handle or to cancel.
RunnerFairSpec ==
  /\ RunnerSpec
  /\ WF_vars(RunnerStart)
  /\ WF_vars(StartCancelled)
  /\ WF_vars(StartRecv)
  /\ WF_vars(EngineTaskStart)
  /\ WF_vars(EngineTaskFinish)
  /\ WF_vars(EngineWaitResults)
  /\ WF_vars(EngineWaitCancelled)

\* C17: start drives one execution per payload taken from the channel, in the
\* order the payloads were sent, and only the latest execution can be in
\* flight: every earlier one has returned.
C17_OneAtATimeInOrder ==
  /\ Len(log) + Len(queue) = nsent
  /\ \A i \in 1..Len(log) : log[i].payload = i
  /\ \A i \in 1..Len(queue) : queue[i] = Len(log) + i
  /\ \A i \in 1..(Len(log) - 1) : log[i].outcome # "running"
  /\ (runner.pc = "wait") <=> (Len(log) > 0 /\ log[Len(log)].outcome = "running")

C17_Witness ==
  /\ Len(log) = 2
  /\ log[1].outcome = "Ok" /\ log[1].spawned = 2
  /\ log[2].outcome = "running" /\ log[2].spawned = 2
  /\ \E n \in DOMAIN exec.tasks : exec.tasks[n].status = "running"

\* C18: an execution that ends in an error or cancelled leaves start at its
\* select!, with no result; start only ever returns Ok, and only through the
\* cancellation branch or the closed channel; and every payload sent is
\* executed unless the token is cancelled.
C18_ErrorKeepsRunning ==
  /\ [][(Len(log') > 0 /\ log'[Len(log')].outcome \in {"Err", "Cancelled"} /\ log' # log) =>
          (runner'.pc = "select" /\ runner'.result = "none")]_vars
  /\ [](runner.pc = "returned" =>
          /\ runner.result = "Ok"
          /\ runner.via \in {"cancelled", "closed"}
          /\ runner.via = "cancelled" => token)
  /\ \A k \in 1..MaxPayloads : (nsent >= k) ~> (Len(log) >= k \/ token)

C18_Witness ==
  /\ ~token
  /\ Len(log) = 2
  /\ log[1].outcome = "Err" /\ log[1].spawned = 1
  /\ log[2].outcome = "Ok"

\* C19: once the token passed to start is cancelled, start eventually returns
\* Ok, and an execution whose payload was taken from the channel after the
\* cancellation spawns no node task and has returned.
C19_CancelStopsRunner ==
  /\ token ~> (runner.pc = "returned" /\ runner.result = "Ok")
  /\ [](\A i \in 1..Len(log) :
          log[i].late => (log[i].spawned = 0 /\ log[i].outcome \in {"Cancelled", "Err"}))

C19_Witness ==
  /\ runner.pc = "returned"
  /\ runner.via = "cancelled"
  /\ Len(log) = 2
  /\ ~log[1].late /\ log[1].spawned = 1 /\ log[1].outcome = "Cancelled"
  /\ log[2].late /\ log[2].outcome = "Cancelled"

\* C20: once every sender handle handed out has been dropped and the channel
\* is empty, start returns without the token being cancelled.
C20_ChannelClosureReturns ==
  (runner.pc = "select" /\ senders.handed > 0 /\ senders.live = {} /\ queue = <<>> /\ ~token)
    ~> (runner.pc = "returned" \/ token)

\* C21: the channel never holds more payloads than its capacity; a payload is
\* accepted only when there is a free slot, and then it is put at the back of
\* the queue (a send on a full queue waits, it neither fails nor drops the
\* payload); and every accepted payload is in the queue or has been taken from
\* it exactly once.
C21_BoundedQueue ==
  /\ [](Len(queue) <= Capacity)
  /\ [](\A k \in 1..nsent :
          Cardinality({i \in 1..Len(queue) : queue[i] = k})
            + Cardinality({i \in 1..Len(log) : log[i].payload = k}) = 1)
  /\ [][nsent' # nsent =>
          /\ Len(queue) < Capacity
          /\ nsent' = nsent + 1
          /\ queue' = Append(queue, nsent')]_vars
  /\ [][(nsent' = nsent /\ runner'.pc # "returned") =>
          \A i \in 1..Len(queue) :
            \/ \E j \in 1..Len(queue') : queue'[j] = queue[i]
            \/ \E j \in 1..Len(log') : log'[j].payload = queue[i]]_vars

C21_Witness ==
  /\ Capacity < MaxPayloads
  /\ nsent = MaxPayloads
  /\ Len(queue) = Capacity
  /\ Len(log) = MaxPayloads - Capacity

\* C22: when input resolution (template rendering or schema coercion) fails
\* for a ready Component node, invoke returns Err(InputResolution) carrying
\* the id of that node, and no task is ever spawned for that node, so its
\* guest is never called.
C22_InputResolutionFails ==
  result.error.kind = "InputResolution" =>
    /\ pc = "done"
    /\ result.status = "Err"
    /\ result.error.node \in find_ready_nodes(workflow, completed)
    /\ workflow.nodes[result.error.node].node_type = "Component"
    /\ result.error.node \notin DOMAIN tasks

\* the resolution of the second node of a batch failed after the task of the
\* first one had been spawned
C22_Witness ==
  /\ result.error.kind = "InputResolution"
  /\ \E n \in DOMAIN tasks : tasks[n].batch = batches

----------------------------------------------------------------------------
(* fuschia-runtime/src/input.rs: strings.  A Rust string is modelled as    *)
(* the sequence of its characters, so that the parsers below read it as    *)
(* the library parsers do.                                                 *)

Digit == {"0", "1", "2", "3", "4", "5", "6", "7", "8", "9"}
Whitespace == {" "}

DigitValue(c) ==
  CASE c = "0" -> 0 [] c = "1" -> 1 [] c = "2" -> 2 [] c = "3" -> 3 [] c = "4" -> 4
    [] c = "5" -> 5 [] c = "6" -> 6 [] c = "7" -> 7 [] c = "8" -> 8 [] OTHER -> 9

\* str::to_lowercase, on the ASCII letters the model's strings are made of
LowerChar(c) ==
  CASE c = "A" -> "a" [] c = "E" -> "e" [] c = "F" -> "f" [] c = "I" -> "i"
    [] c = "L" -> "l" [] c = "N" -> "n" [] c = "R" -> "r" [] c = "S" -> "s"
    [] c = "T" -> "t" [] c = "U" -> "u" [] c = "Y" -> "y" [] OTHER -> c

to_lowercase(s) == [i \in 1..Len(s) |-> LowerChar(s[i])]

AllDigits(s) == \A i \in 1..Len(s) : s[i] \in Digit

\* the digits of s without its leading zeros; "0" when nothing else is left
RECURSIVE StripZeros(_)
StripZeros(s) ==
  IF Len(s) > 1 /\ Head(s) = "0" THEN StripZeros(Tail(s)) ELSE s

\* a < b for two digit strings of the same length
RECURSIVE DigitsLess(_, _)
DigitsLess(a, b) ==
  IF a = <<>> \/ b = <<>>
    THEN a = <<>> /\ b # <<>>
    ELSE IF Head(a) # Head(b)
           THEN DigitValue(Head(a)) < DigitValue(Head(b))
           ELSE DigitsLess(Tail(a), Tail(b))

\* a <= b for two digit strings without leading zeros
MagnitudeLeq(a, b) ==
  \/ Len(a) < Len(b)
  \/ Len(a) = Len(b) /\ (a = b \/ DigitsLess(a, b))

I64Max == <<"9","2","2","3","3","7","2","0","3","6","8","5","4","7","7","5","8","0","7">>
I64MinMagnitude == <<"9","2","2","3","3","7","2","0","3","6","8","5","4","7","7","5","8","0","8">>

ParseError == [ok |-> FALSE]
Parsed(v) == [ok |-> TRUE, value |-> v]

\* An integer as serde_json::Number holds it: sign and magnitude, the
\* magnitude as its decimal digits (i64 does not fit the checker's integers).
IntNumber(neg, digits) == [kind |-> "int", neg |-> neg /\ digits # <<"0">>, digits |-> digits]

RECURSIVE DigitPrefix(_)
\* length of the longest prefix of s made of decimal digits
DigitPrefix(s) ==
  IF s # <<>> /\ Head(s) \in Digit THEN 1 + DigitPrefix(Tail(s)) ELSE 0

RECURSIVE TrailingZeros(_)
TrailingZeros(s) ==
  IF Len(s) > 1 /\ s[Len(s)] = "0" THEN 1 + TrailingZeros(SubSeq(s, 1, Len(s) - 1)) ELSE 0

RECURSIVE DecimalValue(_)
DecimalValue(s) ==
  IF s = <<>> THEN 0 ELSE 10 * DecimalValue(SubSeq(s, 1, Len(s) - 1)) + DigitValue(s[Len(s)])

Drop(s, n) == SubSeq(s, n + 1, Len(s))

\* the value of an exponent's digits without leading zeros; past five digits
\* every exponent is out of the range of f64 in the same way, so it saturates
SaturatedValue(stripped) ==
  IF Len(stripped) > 5 THEN 99999 ELSE DecimalValue(stripped)

ExponentValue(s) == SaturatedValue(StripZeros(s))

\* a <= b for the digit strings of two decimal fractions 0.a and 0.b
PaddedLeq(a, b) == a = b \/ DigitsLess(a, b)

Pad(x, n) == x \o [i \in 1..(n - Len(x)) |-> "0"]

FractionLeq(a, b) ==
  IF Len(a) > Len(b) THEN PaddedLeq(a, Pad(b, Len(a))) ELSE PaddedLeq(Pad(a, Len(b)), b)

\* f64::MAX + half an ulp is 1.797693134862315807937e308: a decimal at or
\* above it rounds to infinity.  Half the least subnormal is
\* 2.470328229206232720882e-324: a decimal at or below it rounds to zero.
OverflowDigits == <<"1","7","9","7","6","9","3","1","3","4","8","6","2","3","1","5","8","0","7","9","3","7">>
UnderflowDigits == <<"2","4","7","0","3","2","8","2","2","9","2","0","6","2","3","2","7","2","0","8","8","2">>

NaN == [kind |-> "float", class |-> "nan"]
Infinite(neg) == [kind |-> "float", class |-> "infinite", neg |-> neg]
\* a finite f64, as the decimal it was read from: digits * 10^exp with no
\* leading and no trailing zero digit (rounding to 53 bits is not modelled)
Finite(neg, digits, exp) ==
  [kind |-> "float", class |-> "finite", neg |-> neg, digits |-> digits, exp |-> exp]

\* the f64 nearest to (-1)^neg * 0.digits * 10^(top + 1), digits without
\* leading or trailing zeros, top the power of ten of the first digit
round_f64(neg, digits, e, top) ==
  IF digits = <<"0">>
    THEN Finite(neg, <<"0">>, 0)
    ELSE IF top > 308 \/ (top = 308 /\ FractionLeq(OverflowDigits, digits))
           THEN Infinite(neg)
           ELSE IF top < -324 \/ (top = -324 /\ FractionLeq(digits, UnderflowDigits))
                  THEN Finite(neg, <<"0">>, 0)
                  ELSE Finite(neg, digits, e)

trimmed_f64(neg, lead, tz, exp) ==
  round_f64(neg, SubSeq(lead, 1, Len(lead) - tz), exp + tz, exp + Len(lead) - 1)

normalized_f64(neg, lead, exp) == trimmed_f64(neg, lead, TrailingZeros(lead), exp)

\* the f64 nearest to (-1)^neg * mantissa * 10^exp
decimal_to_f64(neg, mantissa, exp) == normalized_f64(neg, StripZeros(mantissa), exp)

\* The decimal grammar shared by <f64 as FromStr>::from_str and JSON numbers,
\* read from the head of a string: digits, an optional point and digits, an
\* optional e or E with an optional sign and digits.  rest is what follows.
take_digits(s, n) == [digits |-> SubSeq(s, 1, n), rest |-> Drop(s, n)]

scan_digits(s) == take_digits(s, DigitPrefix(s))

with_fraction(int, has_dot, f) ==
  [int |-> int, has_dot |-> has_dot, frac |-> f.digits, rest |-> f.rest]

scan_fraction(i) ==
  IF i.rest # <<>> /\ Head(i.rest) = "."
    THEN with_fraction(i.digits, TRUE, scan_digits(Tail(i.rest)))
    ELSE with_fraction(i.digits, FALSE, [digits |-> <<>>, rest |-> i.rest])

with_exponent(m, has_exp, exp_neg, e) ==
  [int |-> m.int, has_dot |-> m.has_dot, frac |-> m.frac, has_exp |-> has_exp,
   exp_neg |-> exp_neg, exp_digits |-> e.digits, rest |-> e.rest]

scan_signed_exponent(m, after_e) ==
  IF after_e # <<>> /\ Head(after_e) \in {"+", "-"}
    THEN with_exponent(m, TRUE, Head(after_e) = "-", scan_digits(Tail(after_e)))
    ELSE with_exponent(m, TRUE, FALSE, scan_digits(after_e))

scan_exponent(m) ==
  IF m.rest # <<>> /\ Head(m.rest) \in {"e", "E"}
    THEN scan_signed_exponent(m, Tail(m.rest))
    ELSE with_exponent(m, FALSE, FALSE, [digits |-> <<>>, rest |-> m.rest])

decimal_parts(body) == scan_exponent(scan_fraction(scan_digits(body)))

signed_exponent(exp_neg, e) == IF exp_neg THEN 0 - e ELSE e

\* the f64 a scanned decimal denotes
decimal_value(neg, d) ==
  decimal_to_f64(neg, d.int \o d.frac,
                 (IF d.has_exp /\ d.exp_digits # <<>>
                    THEN signed_exponent(d.exp_neg, ExponentValue(d.exp_digits)) ELSE 0)
                   - Len(d.frac))

split_sign(s) ==
  IF s # <<>> /\ Head(s) \in {"+", "-"}
    THEN [neg |-> Head(s) = "-", body |-> Tail(s)]
    ELSE [neg |-> FALSE, body |-> s]

i64_in_range(neg, mag) ==
  IF MagnitudeLeq(mag, IF neg THEN I64MinMagnitude ELSE I64Max)
    THEN Parsed(IntNumber(neg, mag))
    ELSE ParseError

i64_of(sg) ==
  IF sg.body = <<>> \/ ~AllDigits(sg.body)
    THEN ParseError
    ELSE i64_in_range(sg.neg, StripZeros(sg.body))

\* <i64 as FromStr>::from_str: an optional sign, then one or more decimal
\* digits and nothing else; a value outside i64 is an error.
parse_i64(s) == i64_of(split_sign(s))

f64_decimal(neg, d) ==
  IF \/ d.int = <<>> /\ d.frac = <<>>
     \/ d.has_exp /\ d.exp_digits = <<>>
     \/ d.rest # <<>>
    THEN ParseError
    ELSE Parsed(decimal_value(neg, d))

f64_special(neg, body, lower) ==
  IF lower \in {<<"i","n","f">>, <<"i","n","f","i","n","i","t","y">>}
    THEN Parsed(Infinite(neg))
    ELSE IF lower = <<"n","a","n">>
           THEN Parsed(NaN)
           ELSE f64_decimal(neg, decimal_parts(body))

f64_of(sg) == f64_special(sg.neg, sg.body, to_lowercase(sg.body))

\* <f64 as FromStr>::from_str: an optional sign, then "inf", "infinity" or
\* "nan" in any case, or a decimal with at least one digit before or after
\* the point and an optional exponent, and nothing else.
parse_f64(s) == f64_of(split_sign(s))

----------------------------------------------------------------------------
(* serde_json::Value as input.rs builds it, and serde_json::from_str       *)

JString(s) == [tag |-> "string", s |-> s]
JNumber(n) == [tag |-> "number", n |-> n]
JBool(b) == [tag |-> "bool", b |-> b]
JArray(items) == [tag |-> "array", items |-> items]

U64Max == <<"1","8","4","4","6","7","4","4","0","7","3","7","0","9","5","5","1","6","1","5">>

RECURSIVE skip_whitespace(_)
skip_whitespace(s) ==
  IF s # <<>> /\ Head(s) \in Whitespace THEN skip_whitespace(Tail(s)) ELSE s

StartsWith(s, prefix) == Len(s) >= Len(prefix) /\ SubSeq(s, 1, Len(prefix)) = prefix

RECURSIVE IndexOf(_, _, _)
\* position of the first c in s at or after position i, 0 when there is none
IndexOf(s, c, i) ==
  IF i > Len(s) THEN 0 ELSE IF s[i] = c THEN i ELSE IndexOf(s, c, i + 1)

Syntax == [ok |-> FALSE, value |-> Null, rest |-> <<>>]
Read(v, rest) == [ok |-> TRUE, value |-> v, rest |-> rest]

json_float(f, rest) == IF f.class = "finite" THEN Read(JNumber(f), rest) ELSE Syntax

json_integer(neg, mag, d) ==
  IF neg /\ mag = <<"0">>
    THEN Read(JNumber(Finite(TRUE, <<"0">>, 0)), d.rest)
    ELSE IF MagnitudeLeq(mag, IF neg THEN I64MinMagnitude ELSE U64Max)
           THEN Read(JNumber(IntNumber(neg, mag)), d.rest)
           ELSE json_float(decimal_value(neg, d), d.rest)

json_number(neg, d) ==
  IF \/ d.int = <<>>
     \/ Len(d.int) > 1 /\ Head(d.int) = "0"
     \/ d.has_dot /\ d.frac = <<>>
     \/ d.has_exp /\ d.exp_digits = <<>>
    THEN Syntax
    ELSE IF ~d.has_dot /\ ~d.has_exp
           THEN json_integer(neg, StripZeros(d.int), d)
           ELSE json_float(decimal_value(neg, d), d.rest)

\* Deserializer::parse_integer / parse_decimal / parse_exponent: the JSON
\* number at the head of s.  No digit may follow a leading 0, a point and an
\* exponent need a digit after them, an integer that fits u64 (i64 when
\* negative, except -0) stays an integer, anything else is read as f64, and a
\* number that is not finite as f64 is an error.
parse_number(s) ==
  IF Head(s) = "-"
    THEN json_number(TRUE, decimal_parts(Tail(s)))
    ELSE json_number(FALSE, decimal_parts(s))

str_until(s, quote, escape) ==
  IF quote = 0 \/ (escape # 0 /\ escape < quote)
    THEN Syntax
    ELSE Read(SubSeq(s, 1, quote - 1), Drop(s, quote))

\* Deserializer::parse_str, for strings without escapes: the characters up to
\* the next quote.  s starts after the opening quote.
parse_str(s) == str_until(s, IndexOf(s, "\"", 1), IndexOf(s, "\\", 1))

\* a map entry replaces an earlier entry with the same key
map_insert(pairs, k, v) == {q \in pairs : q[1] # k} \cup {<<k, v>>}

RECURSIVE parse_value(_)
RECURSIVE parse_elements(_, _)
RECURSIVE parse_members(_, _)

elements_next(items, after) ==
  IF after = <<>> THEN Syntax
  ELSE IF Head(after) = "]" THEN Read(JArray(items), Tail(after))
  ELSE IF Head(after) = "," THEN parse_elements(Tail(after), items)
  ELSE Syntax

elements_with(v, items) ==
  IF v.ok THEN elements_next(Append(items, v.value), skip_whitespace(v.rest)) ELSE Syntax

\* the elements of an array after its opening bracket, items read so far
parse_elements(s, items) == elements_with(parse_value(s), items)

members_next(pairs, after) ==
  IF after = <<>> THEN Syntax
  ELSE IF Head(after) = "}" THEN Read(Object(pairs), Tail(after))
  ELSE IF Head(after) = "," THEN parse_members(Tail(after), pairs)
  ELSE Syntax

members_with(k, v, pairs) ==
  IF v.ok
    THEN members_next(map_insert(pairs, k.value, v.value), skip_whitespace(v.rest))
    ELSE Syntax

member_value(k, at_colon, pairs) ==
  IF k.ok /\ at_colon # <<>> /\ Head(at_colon) = ":"
    THEN members_with(k, parse_value(Tail(at_colon)), pairs)
    ELSE Syntax

member_key(k, pairs) == member_value(k, skip_whitespace(k.rest), pairs)

member_at(at_key, pairs) ==
  IF at_key # <<>> /\ Head(at_key) = "\""
    THEN member_key(parse_str(Tail(at_key)), pairs)
    ELSE Syntax

\* the members of an object after its opening brace, pairs read so far
parse_members(s, pairs) == member_at(skip_whitespace(s), pairs)

string_value(str) == IF str.ok THEN Read(JString(str.value), str.rest) ELSE Syntax

array_at(t, inside) ==
  IF inside # <<>> /\ Head(inside) = "]"
    THEN Read(JArray(<<>>), Tail(inside))
    ELSE parse_elements(Tail(t), <<>>)

object_at(t, inside) ==
  IF inside # <<>> /\ Head(inside) = "}"
    THEN Read(Object({}), Tail(inside))
    ELSE parse_members(Tail(t), {})

value_at(t) ==
  IF t = <<>> THEN Syntax
  ELSE IF StartsWith(t, <<"n","u","l","l">>) THEN Read(Null, Drop(t, 4))
  ELSE IF StartsWith(t, <<"t","r","u","e">>) THEN Read(JBool(TRUE), Drop(t, 4))
  ELSE IF StartsWith(t, <<"f","a","l","s","e">>) THEN Read(JBool(FALSE), Drop(t, 5))
  ELSE IF Head(t) = "\"" THEN string_value(parse_str(Tail(t)))
  ELSE IF Head(t) = "[" THEN array_at(t, skip_whitespace(Tail(t)))
  ELSE IF Head(t) = "{" THEN object_at(t, skip_whitespace(Tail(t)))
  ELSE IF Head(t) = "-" \/ Head(t) \in Digit THEN parse_number(t)
  ELSE Syntax

\* Deserializer::deserialize_any: one JSON value after leading whitespace
parse_value(s) == value_at(skip_whitespace(s))

end_of_input(v) ==
  IF v.ok /\ skip_whitespace(v.rest) = <<>> THEN Parsed(v.value) ELSE ParseError

\* serde_json::from_str::<Value>: one value, then only whitespace
from_str(s) == end_of_input(parse_value(s))

----------------------------------------------------------------------------
(* fuschia-runtime/src/input.rs: schema coercion *)

\* Value::get on an object, Option-valued
Missing == [some |-> FALSE, value |-> Null]
Present(v) == [some |-> TRUE, value |-> v]
get(v, k) ==
  IF v.tag = "object" /\ \E q \in v.m : q[1] = k
    THEN Present((CHOOSE q \in v.m : q[1] = k)[2])
    ELSE Missing

SchemaType == {"String", "Number", "Integer", "Boolean", "Null", "Array", "Object"}

schema_type_of(type_str) ==
  CASE type_str = "string" -> "String"
    [] type_str = "number" -> "Number"
    [] type_str = "integer" -> "Integer"
    [] type_str = "boolean" -> "Boolean"
    [] type_str = "null" -> "Null"
    [] type_str = "array" -> "Array"
    [] type_str = "object" -> "Object"
    [] OTHER -> "String"

as_str(opt) == IF opt.some /\ opt.value.tag = "string" THEN Present(opt.value.s) ELSE Missing

typed_properties(properties) ==
  IF properties.some /\ properties.value.tag = "object"
    THEN {<<q[1], as_str(get(q[2], "type")).value>> :
            q \in {p \in properties.value.m : as_str(get(p[2], "type")).some}}
    ELSE {}

types_of(typed) ==
  [name \in {q[1] : q \in typed} |-> schema_type_of((CHOOSE q \in typed : q[1] = name)[2])]

\* extract_schema_types: property name -> SchemaType, for the properties of
\* the "properties" object that carry a string "type"; a type name that is not
\* one of the seven becomes String.
extract_schema_types(json_schema) ==
  types_of(typed_properties(get(json_schema, "properties")))

InputResolution(node_id, input_key, expected) ==
  [kind |-> "InputResolution", node |-> node_id, input |-> input_key, expected |-> expected]

Ok(v) == [ok |-> TRUE, value |-> v]
Err(e) == [ok |-> FALSE, error |-> e]

\* Result::map_err on a parse result
map_err(parsed, e) == IF parsed.ok THEN Ok(parsed.value) ELSE Err(e)

\* serde_json::Number::from_f64: None for a value that is not finite
from_f64(n) == IF n.class = "finite" THEN Present(JNumber(n)) ELSE Missing

unwrap_or(opt, default) == IF opt.some THEN opt.value ELSE default

\* .map(|n| Number::from_f64(n).map(Value::Number).unwrap_or(Value::Null))
number_or_null(parsed) ==
  IF parsed.ok THEN Parsed(unwrap_or(from_f64(parsed.value), Null)) ELSE parsed

\* .map(|n| Value::Number(n.into()))
integer_number(parsed) == IF parsed.ok THEN Parsed(JNumber(parsed.value)) ELSE parsed

\* the Boolean arm without to_lowercase
boolean_of_exact_case(value, lower, e) ==
  IF value = <<"t","r","u","e">> THEN Ok(JBool(TRUE))
  ELSE IF value = <<"f","a","l","s","e">> THEN Ok(JBool(FALSE))
  ELSE Err(e)

\* coerce_value, lines 187-194: the Boolean arm matches on value.to_lowercase()
boolean_of(value, lower, e) ==
  IF lower = <<"t","r","u","e">> THEN Ok(JBool(TRUE))
  ELSE IF lower = <<"f","a","l","s","e">> THEN Ok(JBool(FALSE))
  ELSE Err(e)

\* coerce_value: one rendered string to a typed value, by its schema type.
coerce_value(node_id, input_key, value, schema_type) ==
  CASE schema_type = "String" -> Ok(JString(value))
    [] schema_type = "Number" ->
         map_err(number_or_null(parse_f64(value)), InputResolution(node_id, input_key, "number"))
    [] schema_type = "Integer" ->
         map_err(integer_number(parse_i64(value)), InputResolution(node_id, input_key, "integer"))
    [] schema_type = "Boolean" ->
         boolean_of(value, to_lowercase(value), InputResolution(node_id, input_key, "boolean"))
    [] schema_type = "Null" ->
         IF value = <<>> \/ value = <<"n","u","l","l">>
           THEN Ok(Null)
           ELSE Err(InputResolution(node_id, input_key, "null"))
    [] schema_type = "Array" ->
         map_err(from_str(value), InputResolution(node_id, input_key, "array"))
    [] OTHER ->
         map_err(from_str(value), InputResolution(node_id, input_key, "object"))

\* The loop `for (key, value) in map { ...? }` over a HashMap of results: the
\* entries are visited in the iteration order of the map, which is arbitrary,
\* and the first failure is returned, so any failing entry can be the one
\* reported; without a failure the values are collected.
first_failure(results) ==
  IF \A key \in DOMAIN results : results[key].ok
    THEN {Ok([key \in DOMAIN results |-> results[key].value])}
    ELSE {results[key] : key \in {k \in DOMAIN results : ~results[k].ok}}

\* Ok(serde_json::Value::Object(result))
object_of(r) ==
  IF r.ok THEN Ok(Object({<<key, r.value[key]>> : key \in DOMAIN r.value})) ELSE r

\* coerce_inputs: the values it can return; an input the schema map does not
\* hold is coerced as a String.
coerce_inputs(node_id, resolved, schema) ==
  {object_of(r) :
     r \in first_failure([key \in DOMAIN resolved |->
                            coerce_value(node_id, key, resolved[key],
                                         IF key \in DOMAIN schema THEN schema[key] ELSE "String")])}

\* The rendered strings the coercion is given: the spellings each type
\* accepts, and near misses of each.
RenderedStrings ==
  {<<>>,
   <<"n", "u", "l", "l">>,
   <<"N", "U", "L", "L">>,
   <<"N", "u", "l", "l">>,
   <<"t", "r", "u", "e">>,
   <<"T", "R", "U", "E">>,
   <<"T", "r", "u", "e">>,
   <<"f", "a", "l", "s", "e">>,
   <<"F", "A", "L", "S", "E">>,
   <<"y", "e", "s">>,
   <<"h", "e", "l", "l", "o">>,
   <<"n", "o", "t", "_", "a", "_", "n", "u", "m", "b", "e", "r">>,
   <<"4", "2">>,
   <<"-", "7">>,
   <<"+", "5">>,
   <<"0", "0", "7">>,
   <<" ", "4", "2">>,
   <<"4", "2", " ">>,
   <<"3", ".", "1", "4">>,
   <<"5", ".">>,
   <<".", "5">>,
   <<"1", "e", "5">>,
   <<"1", "e", "9", "9", "9">>,
   <<"-", "1", "e", "9", "9", "9">>,
   <<"1", "e", "-", "9", "9", "9">>,
   <<"i", "n", "f">>,
   <<"-", "i", "n", "f">>,
   <<"I", "n", "f", "i", "n", "i", "t", "y">>,
   <<"N", "a", "N">>,
   <<"n", "a", "n">>,
   <<"9", "2", "2", "3", "3", "7", "2", "0", "3", "6", "8", "5", "4", "7", "7", "5", "8", "0", "7">>,
   <<"9", "2", "2", "3", "3", "7", "2", "0", "3", "6", "8", "5", "4", "7", "7", "5", "8", "0", "8">>,
   <<"-", "9", "2", "2", "3", "3", "7", "2", "0", "3", "6", "8", "5", "4", "7", "7", "5", "8", "0", "8">>,
   <<"-", "9", "2", "2", "3", "3", "7", "2", "0", "3", "6", "8", "5", "4", "7", "7", "5", "8", "0", "9">>,
   <<"[", "1", ",", " ", "2", "]">>,
   <<"[", "]">>,
   <<"[", "1", ",">>,
   <<"{", "}">>,
   <<"{", "\"", "a", "\"", ":", "1", "}">>,
   <<"{", "\"", "a", "\"", ":", "1">>,
   <<"[", "1", "]", " ", "x">>,
   <<"\"", "s", "\"">>,
   <<"-">>,
   <<"+">>,
   <<".">>,
   <<"e", "5">>,
   <<"0", "x", "1", "0">>,
   <<"1", ".", "5", "e">>,
   <<"-", "0">>}

\* the type a schema property can declare: the seven names, a name that is
\* not one of them, a "type" that is not a string, and no "type" at all
TypeNames == {"string", "number", "integer", "boolean", "null", "array", "object", "date"}
PropertySchemas ==
  {Object({<<"type", JString(t)>>}) : t \in TypeNames}
    \cup {Object({<<"type", JArray(<<JString("integer")>>)>>}), Object({})}

\* input schemas: with or without a "properties" object, mentioning "count"
\* or not, mentioning "flag" as a boolean or not
InputSchemas ==
  {Object({})}
    \cup {Object({<<"properties", Object(c \cup f)>>}) :
            c \in {{}} \cup {{<<"count", ps>>} : ps \in PropertySchemas},
            f \in {{}, {<<"flag", Object({<<"type", JString("boolean")>>})>>}}}

\* the resolved maps: "count" with any rendered string, with or without a
\* second input "flag"
ResolvedMaps ==
  {[key \in {"count"} |-> v] : v \in RenderedStrings}
    \cup {[key \in {"count", "flag"} |-> IF key = "count" THEN v ELSE f] :
            v \in RenderedStrings, f \in {<<"T","r","u","e">>, <<"y","e","s">>}}

----------------------------------------------------------------------------
(* fuschia-runtime/src/input.rs: template resolution.  A template is held   *)
(* parsed: a sequence of text and {{ path }} segments, or Malformed for a   *)
(* text minijinja does not compile.                                         *)

Lit(text) == [seg |-> "lit", text |-> text]
Var(path) == [seg |-> "var", path |-> path]
Malformed == <<[seg |-> "malformed"]>>

Undefined == [tag |-> "undefined"]
LookupError == [tag |-> "error"]

RECURSIVE lookup(_, _)

lookup_attr(attr, path) ==
  IF attr.some THEN lookup(attr.value, path) ELSE lookup(Undefined, path)

\* minijinja attribute lookup with the default (lenient) undefined behaviour:
\* a missing key is undefined, and a lookup on undefined is an error
lookup(v, path) ==
  IF path = <<>> THEN v
  ELSE IF v.tag = "undefined" \/ v.tag = "error" THEN LookupError
  ELSE lookup_attr(get(v, Head(path)), Tail(path))

\* how minijinja prints the scalars the contexts of the model hold
stringify(v) ==
  CASE v.tag = "undefined" -> <<>>
    [] v.tag = "null" -> <<"n","o","n","e">>
    [] v.tag = "string" -> v.s
    [] v.tag = "bool" -> IF v.b THEN <<"t","r","u","e">> ELSE <<"f","a","l","s","e">>
    [] v.tag = "number" -> (IF v.n.neg THEN <<"-">> ELSE <<>>) \o v.n.digits

RECURSIVE render_segments(_, _)

printed(v, rest) ==
  IF v.tag = "error" THEN ParseError ELSE Parsed(stringify(v) \o rest.value)

render_segment(seg, context, rest) ==
  IF seg.seg = "malformed" \/ ~rest.ok THEN ParseError
  ELSE IF seg.seg = "lit" THEN Parsed(seg.text \o rest.value)
  ELSE printed(lookup(context, seg.path), rest)

\* Environment::render_str on a parsed template
render_segments(template, context) ==
  IF template = <<>>
    THEN Parsed(<<>>)
    ELSE render_segment(Head(template), context, render_segments(Tail(template), context))

\* resolve_template: Environment::render_str, its error mapped to
\* InputResolution with the node id and the input key
resolve_template(node_id, input_key, template, context) ==
  map_err(render_segments(template, context), InputResolution(node_id, input_key, "template"))

\* resolve_inputs: the values it can return.  For each context the call can
\* build, the inputs are rendered in the iteration order of the inputs map
\* and the first failure is returned.
resolve_inputs(node_id, inputs, upstream_data, is_join) ==
  UNION {first_failure([key \in DOMAIN inputs |->
                          resolve_template(node_id, key, inputs[key], context)]) :
         context \in resolve_context(upstream_data, is_join)}

Templates ==
  {<<Lit(<<"h","i">>)>>,
   <<Var(<<"v">>)>>,
   <<Lit(<<"n","=">>), Var(<<"v">>)>>,
   <<Var(<<"a", "v">>)>>,
   <<Var(<<"w">>)>>,
   Malformed}

\* node outputs: objects with or without the field "v"
UpstreamValues ==
  {Object({<<"v", JNumber(IntNumber(FALSE, <<"1">>))>>}),
   Object({<<"v", JString(<<"x">>)>>}),
   Object({<<"v", JBool(TRUE)>>}),
   Object({})}

UpstreamIds == {"a", "b"}

\* upstream data: a HashMap from some of the upstream ids to an output
UpstreamMaps ==
  {{<<u, f[u]>> : u \in ids} : ids \in SUBSET UpstreamIds, f \in [UpstreamIds -> UpstreamValues]}

\* the inputs of a node: one or two named templates
InputMaps ==
  {[key \in {"count"} |-> t] : t \in Templates}
    \cup {[key \in {"count", "flag"} |-> IF key = "count" THEN t ELSE u] :
            t \in Templates, u \in {<<Var(<<"v">>)>>, Malformed}}

----------------------------------------------------------------------------
(* Calls of the two public functions of input.rs *)

CoerceCalls ==
  {[fn |-> "coerce_inputs", node_id |-> "process", resolved |-> r, schema |-> sc] :
     r \in ResolvedMaps, sc \in InputSchemas}

ResolveCalls ==
  {[fn |-> "resolve_inputs", node_id |-> "process", inputs |-> i, upstream_data |-> u,
    is_join |-> j] : i \in InputMaps, u \in UpstreamMaps, j \in BOOLEAN}

InputInit ==
  /\ call \in CoerceCalls \cup ResolveCalls
  /\ rets = <<>>
  /\ RuntimeIdle
  /\ CacheIdle
  /\ KvIdle
  /\ RunnerIdle
  /\ EpochIdle
  /\ TriggerIdle
  /\ ResolverIdle

\* coerce_inputs(node_id, resolved, extract_schema_types(schema)), as the
\* scheduler and invoke_node call it
CoerceInputs ==
  /\ call.fn = "coerce_inputs"
  /\ Len(rets) < MaxInputCalls
  /\ \E r \in coerce_inputs(call.node_id, call.resolved, extract_schema_types(call.schema)) :
       rets' = Append(rets, r)
  /\ UNCHANGED call
  /\ UNCHANGED nonInputVars

\* resolve_inputs(node_id, inputs, upstream_data, is_join)
ResolveInputs ==
  /\ call.fn = "resolve_inputs"
  /\ Len(rets) < MaxInputCalls
  /\ \E r \in resolve_inputs(call.node_id, call.inputs, call.upstream_data, call.is_join) :
       rets' = Append(rets, r)
  /\ UNCHANGED call
  /\ UNCHANGED nonInputVars

InputNext == CoerceInputs \/ ResolveInputs

InputSpec == InputInit /\ [][InputNext]_vars

\* the "type" a schema declares for an input, "none" when it declares none
C23_DeclaredType(schema, key) ==
  LET properties == get(schema, "properties")
      property == IF properties.some THEN get(properties.value, key) ELSE Missing
      type == IF property.some THEN get(property.value, "type") ELSE Missing
  IN IF type.some /\ type.value.tag = "string" THEN type.value.s ELSE "none"

\* the conversion the rules give for one rendered string
C23_Expected(value, t) ==
  CASE t = "integer" ->
         IF parse_i64(value).ok THEN Ok(JNumber(parse_i64(value).value)) ELSE ParseError
    [] t = "number" ->
         IF ~parse_f64(value).ok THEN ParseError
         ELSE IF parse_f64(value).value.class = "finite"
                THEN Ok(JNumber(parse_f64(value).value)) ELSE Ok(Null)
    [] t = "boolean" ->
         IF to_lowercase(value) \in {<<"t","r","u","e">>, <<"f","a","l","s","e">>}
           THEN Ok(JBool(to_lowercase(value) = <<"t","r","u","e">>)) ELSE ParseError
    [] t = "null" ->
         IF value \in {<<>>, <<"n","u","l","l">>} THEN Ok(Null) ELSE ParseError
    [] t \in {"array", "object"} ->
         IF from_str(value).ok THEN Ok(from_str(value).value) ELSE ParseError
    [] OTHER -> Ok(JString(value))

\* C23: coerce_inputs converts every rendered string by the type its schema
\* property declares: string unchanged; integer by the i64 parse; number by
\* the f64 parse, null when the float is not finite; boolean by true/false in
\* any case; null from "" or "null"; array and object by the JSON parse; a
\* type name that is unknown or missing, and an input the schema does not
\* mention, as a string.  When a conversion fails the call fails with
\* InputResolution for the node, naming an input whose conversion fails.
C23_CoerceBySchemaType ==
  call.fn = "coerce_inputs" =>
    \A i \in 1..Len(rets) :
      LET expected(key) == C23_Expected(call.resolved[key], C23_DeclaredType(call.schema, key))
      IN IF \A key \in DOMAIN call.resolved : expected(key).ok
           THEN rets[i] = Ok(Object({<<key, expected(key).value>> : key \in DOMAIN call.resolved}))
           ELSE /\ ~rets[i].ok
                /\ rets[i].error.kind = "InputResolution"
                /\ rets[i].error.node = call.node_id
                /\ rets[i].error.input \in DOMAIN call.resolved
                /\ ~expected(rets[i].error.input).ok

\* a number input that parses as an infinite float was turned into null,
\* next to a boolean input written as "True"
C23_Witness ==
  /\ call.fn = "coerce_inputs"
  /\ C23_DeclaredType(call.schema, "count") = "number"
  /\ call.resolved = [key \in {"count", "flag"} |->
                        IF key = "count" THEN <<"1","e","9","9","9">> ELSE <<"T","r","u","e">>]
  /\ C23_DeclaredType(call.schema, "flag") = "boolean"
  /\ Len(rets) > 0
  /\ rets[1] = Ok(Object({<<"count", Null>>, <<"flag", JBool(TRUE)>>}))

----------------------------------------------------------------------------
(* The epoch deadline of a guest call: TaskExecutor::execute_inner and     *)
(* fuschia_task_host::execute_task.  Runtime::new builds the engine with   *)
(* epoch_interruption(true); the epoch is advanced by a ticker outside the *)
(* runtime.                                                                *)

NoTimeout == [some |-> FALSE, ms |-> 0]
Timeout(ms) == [some |-> TRUE, ms |-> ms]
Timeouts == {NoTimeout} \cup {Timeout(ms) : ms \in 0..MaxTimeoutMs}

\* u64::MAX, scaled down: more ticks than the ticker of the model ever makes
U64_MAX == 2 ^ 6 - 1

\* the deadline rounded to the nearest tick
epoch_deadline_rounded(timeout_ms) ==
  IF timeout_ms.some THEN Timeout((timeout_ms.ms + 5) \div 10) ELSE NoTimeout

\* execute_inner, line 104: input.timeout_ms.map(|ms| ms / 10)
epoch_deadline(timeout_ms) ==
  IF timeout_ms.some THEN Timeout(timeout_ms.ms \div 10) ELSE NoTimeout

\* execute_task, line 39: epoch_deadline.unwrap_or(u64::MAX)
deadline_ticks(deadline) == IF deadline.some THEN deadline.ms ELSE U64_MAX

\* Store::set_epoch_deadline(ticks_beyond_current): the deadline is that many
\* ticks after the engine's current epoch
set_epoch_deadline(epoch, ticks_beyond_current) == epoch + ticks_beyond_current

\* the check compiled into the guest at function entries and loop headers:
\* the guest is interrupted (traps) once the engine's epoch has reached the
\* deadline of its store
deadline_reached(epoch, deadline) == epoch >= deadline

EpochInit ==
  /\ store \in {[pc |-> "new", timeout_ms |-> t, epoch |-> 0, ticks |-> 0, deadline |-> 0,
                 checks |-> 0] : t \in Timeouts}
  /\ RuntimeIdle
  /\ CacheIdle
  /\ KvIdle
  /\ RunnerIdle
  /\ InputIdle
  /\ TriggerIdle
  /\ ResolverIdle

\* execute_inner from the deadline computation to the guest call of
\* execute_task: Store::new, set_epoch_deadline, instantiate, call_execute
ExecuteTask ==
  /\ store.pc = "new"
  /\ store' = [store EXCEPT
                 !.pc = "running",
                 !.ticks = deadline_ticks(epoch_deadline(store.timeout_ms)),
                 !.deadline = set_epoch_deadline(store.epoch,
                                deadline_ticks(epoch_deadline(store.timeout_ms)))]
  /\ UNCHANGED nonEpochVars

\* the external ticker calls Engine::increment_epoch
Tick ==
  /\ store.pc \in {"new", "running"}
  /\ store.epoch < MaxTicks
  /\ store' = [store EXCEPT !.epoch = store.epoch + 1]
  /\ UNCHANGED nonEpochVars

\* the guest reaches an epoch check: it traps when the deadline is reached
\* (execute_task returns the trap as an error) and goes on otherwise
GuestCheck ==
  /\ store.pc = "running"
  /\ store.checks < MaxChecks
  /\ store' = IF deadline_reached(store.epoch, store.deadline)
                THEN [store EXCEPT !.pc = "interrupted"]
                ELSE [store EXCEPT !.checks = store.checks + 1]
  /\ UNCHANGED nonEpochVars

\* the export returns; the entry of the export is itself an epoch check
GuestReturn ==
  /\ store.pc = "running"
  /\ store.checks > 0
  /\ store' = [store EXCEPT !.pc = "returned"]
  /\ UNCHANGED nonEpochVars

EpochNext == ExecuteTask \/ Tick \/ GuestCheck \/ GuestReturn

EpochSpec == EpochInit /\ [][EpochNext]_vars

\* C25: a guest call of a node whose timeout_ms is 0 or absent is never
\* interrupted for passing its epoch deadline.
C25_ZeroOrAbsentUnbounded ==
  store.pc = "interrupted" => (store.timeout_ms.some /\ store.timeout_ms.ms # 0)

\* C26: within one invocation no node is dispatched more than once.  An entry
\* of completed is never removed or overwritten; a node that gets a task has
\* no entry in completed and has had no task before; and a task that has
\* finished, with an error or without, is never started again, whatever the
\* max_retry_attempts and fail_workflow fields of its node are.
C26_DispatchedOnce ==
  /\ [][\A n \in DOMAIN completed :
          n \in DOMAIN completed' /\ completed'[n] = completed[n]]_vars
  /\ [][\A n \in DOMAIN tasks' :
          IF n \in DOMAIN tasks
            THEN /\ tasks'[n].batch = tasks[n].batch
                 /\ tasks[n].status = "finished" => tasks'[n] = tasks[n]
            ELSE n \notin DOMAIN completed]_vars
  /\ [][DOMAIN tasks \subseteq DOMAIN tasks']_vars

\* a node that asks for retries failed and invoke returned its error
C26_Witness ==
  /\ pc = "done"
  /\ result.status = "Err"
  /\ \E n \in DOMAIN tasks :
       /\ workflow.nodes[n].max_retry_attempts.some
       /\ ~workflow.nodes[n].fail_workflow
       /\ tasks[n].error = result.error
       /\ tasks[n].error # NoError
       /\ completed # EmptyMap
----------------------------------------------------------------------------
(* Join strategy *)

\* The same workflow with the strategy of every Join node set to All.
strategy_all(w) ==
  [w EXCEPT !.nodes = [n \in DOMAIN w.nodes |->
                         IF w.nodes[n].node_type = "Join"
                           THEN [w.nodes[n] EXCEPT !.strategy = "All"]
                           ELSE w.nodes[n]]]

AnyJoins(w) ==
  {n \in NodeIds(w) : w.nodes[n].node_type = "Join" /\ w.nodes[n].strategy = "Any"}

\* C27: a Join node is handed to a task only in a step in which every one of
\* its predecessors is a key of completed; and whatever the strategies of
\* the Join nodes, the ready set at the top of the loop, the record built for
\* each newly spawned task and the output each Join task finishes with are
\* those the scheduler computes for the same workflow with every strategy
\* set to All.
C27_JoinWaitsForAll ==
  /\ [][\A n \in DOMAIN tasks' \ DOMAIN tasks :
          workflow.nodes[n].node_type = "Join"
            => RangeOf(upstream(graph(workflow), n)) \subseteq DOMAIN completed]_vars
  /\ [](find_ready_nodes(workflow, completed)
          = find_ready_nodes(strategy_all(workflow), completed))
  /\ [][\A n \in DOMAIN tasks' \ DOMAIN tasks :
          /\ n \in find_ready_nodes(strategy_all(workflow), completed)
          /\ tasks'[n] = NewTask(strategy_all(workflow), n, completed, batches')]_vars
  /\ [][\A n \in DOMAIN tasks :
          (/\ workflow.nodes[n].node_type = "Join"
           /\ tasks[n].status # "finished"
           /\ tasks'[n].status = "finished")
            => /\ tasks'[n].error = NoError
               /\ tasks'[n].output
                    = execute_join(NewTask(strategy_all(workflow), n, completed,
                                           tasks[n].batch))]_vars

\* a Join node with strategy Any, one of whose two predecessors completed a
\* batch before the other, has finished with the outputs of both.
C27_Witness ==
  \E n \in AnyJoins(workflow) :
    /\ n \in DOMAIN tasks
    /\ tasks[n].status = "finished"
    /\ tasks[n].batch = 2
    /\ Cardinality(tasks[n].upstream_data) = 2
    /\ tasks[n].output = Object(tasks[n].upstream_data)

----------------------------------------------------------------------------
(* Template context of a dispatched node *)

\* The positions of the edge list that are edges into n.
incoming_edges(w, n) == {i \in 1..Len(w.edges) : w.edges[i][2] = n}

predecessors(w, n) == {w.edges[i][1] : i \in incoming_edges(w, n)}

\* C28: every task of a Component node was handed is_join = TRUE exactly
\* when the edge list has more than one edge into the node, and upstream data
\* that pair each predecessor with its output in completed; its template
\* context is the object of those pairs when is_join is TRUE, the output of
\* the one predecessor when is_join is FALSE and there is one edge into the
\* node, and the empty object when there is none.  A call of resolve_inputs
\* with no upstream data and is_join FALSE builds the empty object.
C28_TemplateContext ==
  /\ \A n \in DOMAIN tasks :
        workflow.nodes[n].node_type = "Component"
          => /\ tasks[n].is_join = (Cardinality(incoming_edges(workflow, n)) > 1)
             /\ predecessors(workflow, n) \subseteq DOMAIN completed
             /\ tasks[n].upstream_data
                  = {<<u, completed[u].output>> : u \in predecessors(workflow, n)}
             /\ tasks[n].is_join => tasks[n].context = {Object(tasks[n].upstream_data)}
             /\ (~tasks[n].is_join /\ Cardinality(incoming_edges(workflow, n)) = 1)
                  => tasks[n].context = {completed[u].output : u \in predecessors(workflow, n)}
             /\ incoming_edges(workflow, n) = {} => tasks[n].context = {Object({})}
  /\ resolve_context({}, FALSE) = {Object({})}

\* a Component node with two predecessors and a Component node with one have
\* both been dispatched.
C28_Witness ==
  \E j, a \in DOMAIN tasks :
    /\ workflow.nodes[j].node_type = "Component"
    /\ workflow.nodes[a].node_type = "Component"
    /\ tasks[j].is_join
    /\ Cardinality(tasks[j].upstream_data) = 2
    /\ ~tasks[a].is_join
    /\ Cardinality(incoming_edges(workflow, a)) = 1
    /\ tasks[a].context # {Object({})}

----------------------------------------------------------------------------
(* Nodes with several predecessors *)

\* C29 as stated: a dispatched Component node that has more than one
\* predecessor and is not a Join node has the empty object as its template
\* context.
C29_EmptyContext ==
  \A n \in DOMAIN tasks :
    (/\ workflow.nodes[n].node_type = "Component"
     /\ Cardinality(predecessors(workflow, n)) > 1)
      => tasks[n].context = {Object({})}

\* C29: a node with more than one incoming edge is a join point of the graph
\* whatever its node type, so its task is handed is_join = TRUE, and when it
\* is a Component node its template context is the object that maps each
\* predecessor to its output, which has an entry per predecessor and so is
\* not the empty object.  A call of resolve_inputs with is_join FALSE and
\* more than one upstream entry takes one of the upstream values as context.
C29_JoinPointContext ==
  /\ \A n \in NodeIds(workflow) :
        Cardinality(incoming_edges(workflow, n)) > 1 => is_join_point(graph(workflow), n)
  /\ \A n \in DOMAIN tasks :
        Cardinality(incoming_edges(workflow, n)) > 1
          => /\ tasks[n].is_join
             /\ workflow.nodes[n].node_type = "Component"
                  => /\ tasks[n].context = {Object(tasks[n].upstream_data)}
                     /\ {p[1] : p \in tasks[n].upstream_data} = predecessors(workflow, n)
                     /\ tasks[n].context # {Object({})}
  /\ \A m \in UpstreamMaps :
        Cardinality(m) > 1 => resolve_context(m, FALSE) = {p[2] : p \in m}

\* a Component node with two distinct predecessors has been dispatched.
C29_Witness ==
  \E n \in DOMAIN tasks :
    /\ workflow.nodes[n].node_type = "Component"
    /\ Cardinality(predecessors(workflow, n)) = 2
    /\ tasks[n].status = "finished"
    /\ tasks[n].error = NoError

----------------------------------------------------------------------------
(* The trigger runner *)

\* C30: in an invocation of a workflow that passes validation, once invoke
\* is past validation execute_trigger has run for the one trigger node and is
\* either still in the guest call, or has returned an error or the
\* short-circuit result, or has put the trigger's result into completed; the
\* guest of the trigger component is called at most once, from invoke's
\* first step and before any batch; a task exists only when the trigger's
\* result is in completed, and no task is ever spawned for the trigger node.
\* In an invocation of a workflow that fails validation the trigger guest is
\* never called, the trigger component is not loaded, no task is spawned,
\* completed stays empty and invoke returns the validation error.
C30_TriggerFirstAndOnce ==
  /\ []((Valid(workflow) /\ pc # "init") =>
          /\ Cardinality(Triggers) = 1
          /\ trigCalls <= 1
          /\ \A t \in Triggers : trigCalls = 1 => workflow.nodes[t].component
          /\ result.via = "pending" => trigCalls = 1
          /\ \/ pc = "trigger_call" /\ trigCalls = 1 /\ completed = EmptyMap
             \/ Returned /\ result.via = "trigger" /\ completed = EmptyMap
             \/ Returned /\ result.via = "pending" /\ completed = EmptyMap
             \/ Triggers \subseteq DOMAIN completed)
  /\ [](tasks # EmptyMap =>
          /\ Triggers \subseteq DOMAIN completed
          /\ \A n \in DOMAIN tasks : workflow.nodes[n].node_type # "Trigger")
  /\ [][trigCalls' # trigCalls =>
          /\ pc = "init"
          /\ trigCalls = 0
          /\ trigCalls' = 1
          /\ tasks' = EmptyMap
          /\ batches' = 0]_vars
  /\ [][tasks' # tasks => (pc \notin {"init", "trigger_call"} /\ Triggers \subseteq DOMAIN completed)]_vars
  /\ [](~Valid(workflow) =>
          /\ trigCalls = 0
          /\ TriggerKey \notin cache
          /\ tasks = EmptyMap
          /\ completed = EmptyMap
          /\ batches = 0
          /\ pc \in {"init", "done"}
          /\ Returned => (result.status = "Err" /\ result.via = "validate"))

\* the trigger component was called once and, after it, a second batch of
\* tasks ran to the end of a successful invocation.
C30_Witness ==
  /\ Valid(workflow)
  /\ Returned
  /\ result.status = "Ok"
  /\ result.via = "break"
  /\ trigCalls = 1
  /\ batches >= 2
  /\ \E n \in DOMAIN tasks : workflow.nodes[n].node_type \in {"Component", "Join"}

----------------------------------------------------------------------------
(* fuschia-runtime: execute_trigger with a trigger component, and the match *)
(* of invoke on its outcome                                                 *)

\* what the guest export handle() of a trigger component returns
Completed(data) == [status |-> "Completed", data |-> data]
Pending == [status |-> "Pending", data |-> <<>>]
GuestFailure == [status |-> "Error", data |-> <<>>]

GuestResults == {Completed(d) : d \in RenderedStrings} \cup {Pending, GuestFailure}

TriggerId == "t"

\* unwrap_or(Value::String(data)) on the result of from_str
or_string(parsed, data) == IF parsed.ok THEN parsed.value ELSE JString(data)

\* the output taken to be the raw string whatever it holds
completed_output_raw(data) == JString(data)

\* execute_trigger, lines 399-400: the output of a trigger whose component
\* returned Completed(data).
completed_output(data) == or_string(from_str(data), data)

Continue(node_result) == [kind |-> "Continue", node_result |-> node_result, error |-> NoError]
ShortCircuit(node_result) == [kind |-> "ShortCircuit", node_result |-> node_result, error |-> NoError]
Failed(e) == [kind |-> "Err", node_result |-> Null, error |-> e]

\* execute_trigger, lines 393-434: from the return of the guest call to the
\* value execute_trigger returns.
trigger_outcome(tid, p, r) ==
  CASE r.status = "Completed" -> Continue(NodeResult(tid, p, Null, completed_output(r.data)))
    [] r.status = "Pending" -> ShortCircuit(short_circuit(tid, p))
    [] OTHER -> Failed(Error("ComponentExecution", tid, "guest"))

TriggerInit ==
  /\ trig \in {[pc |-> "guest", payload |-> p, returned |-> r, outcome |-> Failed(NoError),
                 completed |-> EmptyMap, result |-> NoResult] :
                  p \in Scalars, r \in GuestResults}
  /\ RuntimeIdle
  /\ CacheIdle
  /\ KvIdle
  /\ RunnerIdle
  /\ InputIdle
  /\ EpochIdle
  /\ ResolverIdle

\* execute_trigger returns
ExecuteTrigger ==
  /\ trig.pc = "guest"
  /\ trig' = [trig EXCEPT !.pc = "returned",
                          !.outcome = trigger_outcome(TriggerId, trig.payload, trig.returned)]
  /\ UNCHANGED nonTriggerVars

\* invoke, lines 100-118: the ? on the result of execute_trigger and the
\* match on the outcome, up to the call of run_execution_loop.
InvokeMatch ==
  /\ trig.pc = "returned"
  /\ trig' = CASE trig.outcome.kind = "Continue" ->
                    [trig EXCEPT !.pc = "loop",
                                 !.completed = (trig.outcome.node_result.node_id
                                                  :> trig.outcome.node_result)]
               [] trig.outcome.kind = "ShortCircuit" ->
                    [trig EXCEPT !.pc = "done",
                                 !.result = OkResult(trig.outcome.node_result.node_id
                                                       :> trig.outcome.node_result, "pending")]
               [] OTHER ->
                    [trig EXCEPT !.pc = "done",
                                 !.result = ErrResult(trig.outcome.error, "trigger")]
  /\ UNCHANGED nonTriggerVars

TriggerNext ==
  \/ ExecuteTrigger
  \/ InvokeMatch

TriggerSpec == TriggerInit /\ [][TriggerNext]_vars

C31_Parses(data) == from_str(data).ok

\* C31: when the trigger component returned Completed(data), execute_trigger
\* returns Continue with the trigger node's result, whose input is the
\* payload and whose output is the value data parses to as JSON when it
\* parses and the string data itself when it does not; invoke then enters
\* the scheduler loop with exactly that result in completed, and does not
\* return.  In particular "hello" stays a string, "42 " becomes a number,
\* "{}" the empty object and "[1," stays a string.
C31_CompletedOutput ==
  /\ (trig.pc \in {"returned", "loop", "done"} /\ trig.returned.status = "Completed") =>
        /\ trig.outcome.kind = "Continue"
        /\ trig.outcome.node_result.node_id = TriggerId
        /\ trig.outcome.node_result.input = trig.payload
        /\ IF C31_Parses(trig.returned.data)
              THEN trig.outcome.node_result.output = from_str(trig.returned.data).value
              ELSE trig.outcome.node_result.output = JString(trig.returned.data)
        /\ trig.pc # "done"
        /\ trig.pc = "loop" =>
              /\ trig.completed = (TriggerId :> trig.outcome.node_result)
              /\ trig.result = NoResult
  /\ completed_output(<<"h", "e", "l", "l", "o">>) = JString(<<"h", "e", "l", "l", "o">>)
  /\ completed_output(<<"[", "1", ",">>) = JString(<<"[", "1", ",">>)
  /\ completed_output(<<"4", "2", " ">>).tag = "number"
  /\ completed_output(<<"{", "}">>) = Object({})
  /\ completed_output(<<"\"", "s", "\"">>) = JString(<<"s">>)

\* invoke has entered the scheduler loop with an object the payload string
\* parsed to, and in another run would do so with a string that does not parse.
C31_Witness ==
  /\ trig.pc = "loop"
  /\ trig.returned = Completed(<<"{", "\"", "a", "\"", ":", "1", "}">>)
  /\ trig.completed[TriggerId].output.tag = "object"
  /\ trig.completed[TriggerId].output # Object({})
  /\ ~C31_Parses(<<"h", "e", "l", "l", "o">>)

----------------------------------------------------------------------------
(* Loop nodes *)

LoopNodes(w) == {n \in NodeIds(w) : w.nodes[n].node_type = "Loop"}

successors(w, S) == S \cup {w.edges[i][2] : i \in {k \in 1..Len(w.edges) : w.edges[k][1] \in S}}

\* the nodes reachable from n along one or more edges (the workflows of the
\* model have at most four nodes)
downstream_of(w, n) ==
  successors(w, successors(w, successors(w, successors(w, {n})))) \ {n}

LoopError(n) == Error("InvalidGraph", n, "loop_unimplemented")

\* C32 as stated: once a Loop node has been handed to a task, invoke returns
\* no value other than the InvalidGraph error of that Loop node.
C32_FailsWithInvalidGraph ==
  \A n \in LoopNodes(workflow) \cap DOMAIN tasks :
    Returned => result = ErrResult(LoopError(n), result.via)

\* C32: once a Loop node has been handed to a task, invoke never returns
\* Ok; the task of the Loop node never runs a guest and finishes only with
\* InvalidGraph (not yet implemented); the Loop node never enters completed
\* and no node downstream of it is ever dispatched, or completed unless it
\* is the trigger (the edges may lead back to it).  The error
\* invoke returns is the one of the first failing handle of the batch in
\* spawn order, so it is the Loop node's InvalidGraph when invoke returns
\* from result processing and no handle before the Loop node's failed; it is
\* another task's error, a component load or input resolution error of a
\* later node of the ready list, or Cancelled otherwise.
C32_LoopNeverSucceeds ==
  \A n \in LoopNodes(workflow) \cap DOMAIN tasks :
    /\ tasks[n].status \in {"spawned", "finished"}
    /\ tasks[n].status = "finished" => tasks[n].error = LoopError(n)
    /\ n \notin DOMAIN completed
    /\ \A m \in downstream_of(workflow, n) :
         m \notin DOMAIN tasks /\ (m \in DOMAIN completed => m \in Triggers)
    /\ Returned =>
         /\ result.status = "Err"
         /\ result.via \in {"spawn", "results", "select", "top"}
         /\ result.via = "top" => result.error = Cancelled
         /\ result.via = "select" => result.error = Cancelled
         /\ result.via = "spawn" => result.error.kind \in {"ComponentLoad", "InputResolution"}
         /\ result.via = "results" =>
              \E k \in 1..Len(handles) :
                /\ result.error = tasks[handles[k]].error
                /\ result.error # NoError
                /\ \A i \in 1..(k - 1) : tasks[handles[i]].error = NoError
                /\ (\E i \in k..Len(handles) : handles[i] = n)
                /\ (\A i \in 1..Len(handles) :
                      (handles[i] = n /\ \A h \in 1..(i - 1) : tasks[handles[h]].error = NoError)
                        => result.error = LoopError(n))

\* invoke returned the InvalidGraph error of a Loop node that has a node
\* downstream of it and was spawned after a task that succeeded.
C32_Witness ==
  \E n \in LoopNodes(workflow) \cap DOMAIN tasks :
    /\ Returned
    /\ result = ErrResult(LoopError(n), "results")
    /\ downstream_of(workflow, n) # {}
    /\ Len(handles) = 2
    /\ handles[2] = n

----------------------------------------------------------------------------
(* ComponentCache: hits, clears and the lock *)

\* C33: a call of get_or_compile whose lookup finds the key in the map
\* returns the component the map holds, without compiling and without
\* changing the map; a key leaves the map only by clear; a lookup misses only
\* when the key is not in the map; and between two clears the number of
\* compiles of a key is at most the number of calls that missed it, the
\* calls that missed it before the clear and compile after it included.
C33_CachedUntilCleared ==
  /\ [][\A c \in Callers :
          (callers[c].pc = "read" /\ callers'[c].pc # "read" /\ callers[c].key \in DOMAIN entries)
            => /\ callers'[c].pc = "done"
               /\ callers'[c].result = [status |-> "Ok", component |-> entries[callers[c].key],
                                        error |-> NoError]
               /\ compiles' = compiles
               /\ races'.compiled = races.compiled
               /\ entries' = entries]_vars
  /\ [][\A k \in DOMAIN entries : k \notin DOMAIN entries' => races'.clears = races.clears + 1]_vars
  /\ [][\A k \in ComponentKeys :
          (races'.clears = races.clears /\ races'.missed[k] > races.missed[k])
            => k \notin DOMAIN entries]_vars
  /\ [](\A k \in ComponentKeys :
          /\ races.compiled[k] + still_to_compile(callers, k) = races.missed[k]
          /\ races.compiled[k] <= races.missed[k]
          /\ races.missed[k] <= races.calls)

\* two callers raced on a key, both compiled it, and a third call of the
\* same key was answered from the map.
C33_Witness ==
  \E c, d \in Callers, k \in ComponentKeys :
    /\ c # d
    /\ races.clears = 0
    /\ races.missed[k] = 2
    /\ races.compiled[k] = 2
    /\ races.calls = 3
    /\ callers[c].pc = "done" /\ callers[c].key = k /\ callers[c].component = NoComponent
    /\ callers[c].result.status = "Ok"
    /\ callers[c].result.component = entries[k]
    /\ callers[d].pc = "done" /\ callers[d].key = k /\ callers[d].component # NoComponent

\* C34: a caller holds the cache's lock only inside the two blocks of
\* get_or_compile: not while it compiles, not while it waits to insert, and
\* not after get_or_compile has returned, when it instantiates the component
\* and runs the guest.  So whenever a caller is compiling or has returned,
\* the read lock can be taken by any other caller, whose lookup hits if the
\* key is in the map.
C34_NoLockAcrossCompile ==
  /\ \A c \in Callers :
        callers[c].pc \in {"compile", "write", "done"}
          => /\ c \notin lock.readers
             /\ lock.writer # c
  /\ \A c, d \in Callers :
        (/\ c # d
         /\ callers[c].pc \in {"compile", "done"}
         /\ callers[d].pc = "read")
          => /\ can_read(lock)
             /\ callers[d].key \in DOMAIN entries
                  => after_lookup(callers[d], cache_get(entries, callers[d].key)).pc = "done"

\* while one caller is still compiling a key, another caller has inserted
\* the key and, in a later call, got it from the map.
C34_Witness ==
  \E c, d \in Callers :
    /\ c # d
    /\ callers[c].pc = "compile"
    /\ callers[d].pc = "done"
    /\ callers[d].key = callers[c].key
    /\ callers[d].component = NoComponent
    /\ callers[d].result.status = "Ok"
    /\ races.calls = 3
    /\ races.clears = 0

----------------------------------------------------------------------------
(* The entry check of the executors *)

\* C35: a task of a Component node that starts when the token is cancelled
\* finishes in that step with Cancelled and no output, and never runs the
\* guest; a task starts its guest call only while the token is not
\* cancelled.  The trigger executor, entered by invoke with a loaded trigger
\* component while the token is cancelled, makes invoke return Cancelled
\* without a guest call; the trigger guest is called only while the token
\* is not cancelled.
C35_EntryCheck ==
  /\ [][\A n \in DOMAIN tasks :
          (/\ workflow.nodes[n].node_type = "Component"
           /\ tasks[n].status = "spawned"
           /\ tasks'[n].status # "spawned")
            => IF cancel
                 THEN /\ tasks'[n].status = "finished"
                      /\ tasks'[n].error = Cancelled
                      /\ tasks'[n].output = Null
                 ELSE tasks'[n].status = "running"]_vars
  /\ [][(pc = "init" /\ pc' # "init" /\ cancel /\ Valid(workflow)
           /\ TriggerKey \in cache'
           /\ \A t \in Triggers : workflow.nodes[t].component)
          => /\ pc' = "done"
             /\ result' = ErrResult(Cancelled, "trigger")
             /\ trigCalls' = trigCalls]_vars
  /\ [][trigCalls' # trigCalls => ~cancel]_vars

\* after the first batch was spawned the token was cancelled, and a task of
\* a Component node that started then finished with Cancelled.
C35_Witness ==
  \E n \in DOMAIN tasks :
    /\ workflow.nodes[n].node_type = "Component"
    /\ tasks[n].status = "finished"
    /\ tasks[n].error = Cancelled
    /\ cancelAt.pc = "wait"
    /\ cancelAt.batches = 1

----------------------------------------------------------------------------
(* The epoch deadline of a guest call *)

\* C36: once the executor has set the deadline of the store, the number of
\* ticks it handed to set_epoch_deadline is, for a timeout_ms of t, the
\* largest whole number of ticks of 10 ms that fits into t (t / 10 rounded
\* down), and, when timeout_ms is absent, the largest value of the tick
\* counter's type; the store's deadline is that many ticks after the epoch
\* at which it was set.
C36_DeadlineTicks ==
  store.pc \in {"running", "returned", "interrupted"} =>
    /\ store.timeout_ms.some =>
         /\ store.ticks \in 0..U64_MAX
         /\ store.ticks * 10 <= store.timeout_ms.ms
         /\ store.timeout_ms.ms < (store.ticks + 1) * 10
    /\ ~store.timeout_ms.some =>
         /\ store.ticks = 2 ^ 6 - 1
         /\ \A d \in 0..U64_MAX : d <= store.ticks
    /\ store.deadline >= store.ticks
    /\ store.deadline - store.ticks <= store.epoch

\* a guest call with timeout_ms = 25 runs with a deadline of 2 ticks.
C36_Witness ==
  /\ store.pc = "running"
  /\ store.timeout_ms = Timeout(25)
  /\ store.ticks = 2

----------------------------------------------------------------------------
(* fuscia-resolver: StandardResolver::resolve                               *)

MaxDefEdges == 3   \* longest edge list of a workflow definition

\* node lists of a definition: up to three node ids, repeats included
DefNodeLists == SeqsUpTo({"a", "b", "c"}, 3)

\* the edges a definition can list; "x" is an id that no node has
DefEdges ==
  {<<"a", "b">>, <<"b", "c">>, <<"c", "a">>, <<"b", "a">>, <<"a", "c">>, <<"a", "a">>,
   <<"a", "x">>, <<"x", "b">>}

DefEdgeLists == SeqsUpTo(DefEdges, MaxDefEdges)

ResolveOk == [kind |-> "Ok", node_id |-> "-"]
ResolveError(kind, node_id) == [kind |-> kind, node_id |-> node_id]

\* resolve_inner, lines 242-249: the ids are inserted into a HashSet in list
\* order; the first id that is already in the set is reported.
RECURSIVE collect_node_ids(_, _, _)
collect_node_ids(nodes, node_ids, i) ==
  IF i > Len(nodes)
    THEN [error |-> ResolveOk, node_ids |-> node_ids]
    ELSE IF nodes[i] \in node_ids
           THEN [error |-> ResolveError("DuplicateNodeId", nodes[i]), node_ids |-> node_ids]
           ELSE collect_node_ids(nodes, node_ids \cup {nodes[i]}, i + 1)

\* validate_edges reporting the target of a bad edge before its source
RECURSIVE validate_edges_to_first(_, _, _)
validate_edges_to_first(node_ids, edges, i) ==
  IF i > Len(edges)
    THEN ResolveOk
    ELSE IF edges[i][2] \notin node_ids
           THEN ResolveError("InvalidEdge", edges[i][2])
           ELSE IF edges[i][1] \notin node_ids
                  THEN ResolveError("InvalidEdge", edges[i][1])
                  ELSE validate_edges_to_first(node_ids, edges, i + 1)

\* validate_edges: the edges in list order, the source of an edge before its
\* target.
RECURSIVE validate_edges(_, _, _)
validate_edges(node_ids, edges, i) ==
  IF i > Len(edges)
    THEN ResolveOk
    ELSE IF edges[i][1] \notin node_ids
           THEN ResolveError("InvalidEdge", edges[i][1])
           ELSE IF edges[i][2] \notin node_ids
                  THEN ResolveError("InvalidEdge", edges[i][2])
                  ELSE validate_edges(node_ids, edges, i + 1)

\* detect_cycle, lines 66-74: an entry per node id; an edge whose source has
\* no entry is skipped.
adjacency_of(node_ids, edges) ==
  [n \in node_ids |->
     LET out == SelectSeq(edges, LAMBDA e : e[1] = n)
     IN [i \in 1..Len(out) |-> out[i][2]]]

White == 0
Gray == 1
Black == 2

\* a neighbour that is in progress taken for one that is done
neighbor_color_no_back_edge(color, neighbor) ==
  IF neighbor \in DOMAIN color /\ color[neighbor] = White THEN White ELSE Black

\* color.get(neighbor): a neighbour without a colour falls into the last arm
\* of the match, as a finished one does.
neighbor_color(color, neighbor) ==
  IF neighbor \in DOMAIN color THEN color[neighbor] ELSE Black

\* the dfs of detect_cycle, lines 79-102: whether a cycle was found, and the
\* colours afterwards.
RECURSIVE dfs(_, _, _)
RECURSIVE dfs_neighbors(_, _, _, _)
RECURSIVE dfs_after(_, _, _, _)
dfs(node, adjacency, color) ==
  dfs_neighbors(node, adjacency, [color EXCEPT ![node] = Gray], 1)

dfs_neighbors(node, adjacency, color, i) ==
  IF i > Len(adjacency[node])
    THEN [cycle |-> FALSE, color |-> [color EXCEPT ![node] = Black]]
    ELSE LET c == neighbor_color(color, adjacency[node][i]) IN
         CASE c = Gray -> [cycle |-> TRUE, color |-> color]
           [] c = White -> dfs_after(node, adjacency, dfs(adjacency[node][i], adjacency, color), i)
           [] OTHER -> dfs_neighbors(node, adjacency, color, i + 1)

dfs_after(node, adjacency, found, i) ==
  IF found.cycle THEN found ELSE dfs_neighbors(node, adjacency, found.color, i + 1)

\* detect_cycle, lines 104-110: the loop over the node ids, in the order the
\* HashSet yields them.
RECURSIVE detect_from(_, _, _, _)
RECURSIVE detect_after(_, _, _, _)
detect_from(order, adjacency, color, i) ==
  IF i > Len(order)
    THEN ResolveOk
    ELSE IF color[order[i]] = White
           THEN detect_after(order, adjacency, dfs(order[i], adjacency, color), i)
           ELSE detect_from(order, adjacency, color, i + 1)

detect_after(order, adjacency, found, i) ==
  IF found.cycle
    THEN ResolveError("CycleDetected", "-")
    ELSE detect_from(order, adjacency, found.color, i + 1)

\* detect_cycle: what it can return, over the iteration orders of the set.
detect_cycle(node_ids, edges) ==
  {detect_from(order, adjacency_of(node_ids, edges), [n \in node_ids |-> White], 1) :
     order \in Orders(node_ids)}

\* resolve_inner, lines 264-286: a node that does not resolve (a component
\* the registry does not have, an invalid trigger, a nested loop body that
\* does not resolve) fails the call; a workflow without entry points does too.
resolve_nodes(node_ids, edges, nodes_resolve) ==
  IF node_ids # {} /\ ~nodes_resolve
    THEN ResolveError("NodeResolution", "-")
    ELSE IF {n \in node_ids : \A i \in 1..Len(edges) : edges[i][2] # n} = {}
           THEN ResolveError("NoEntryPoints", "-")
           ELSE ResolveOk

ResolverInit ==
  /\ resolution \in {[pc |-> "collect", nodes |-> ns, edges |-> es, node_ids |-> {},
                       result |-> ResolveOk] : ns \in DefNodeLists, es \in DefEdgeLists}
  /\ RuntimeIdle
  /\ CacheIdle
  /\ KvIdle
  /\ RunnerIdle
  /\ InputIdle
  /\ EpochIdle
  /\ TriggerIdle

\* the step of resolve_inner that returned r: on to the next step, or out
resolve_step(res, r, next) ==
  IF r = ResolveOk
    THEN [res EXCEPT !.pc = next]
    ELSE [res EXCEPT !.pc = "returned", !.result = r]

CollectNodeIds ==
  /\ resolution.pc = "collect"
  /\ \E c \in {collect_node_ids(resolution.nodes, {}, 1)} :
       resolution' = [resolve_step(resolution, c.error, "edges") EXCEPT !.node_ids = c.node_ids]
  /\ UNCHANGED nonResolverVars

ValidateEdges ==
  /\ resolution.pc = "edges"
  /\ resolution' = resolve_step(resolution,
                                validate_edges(resolution.node_ids, resolution.edges, 1), "cycle")
  /\ UNCHANGED nonResolverVars

DetectCycle ==
  /\ resolution.pc = "cycle"
  /\ \E r \in detect_cycle(resolution.node_ids, resolution.edges) :
       resolution' = resolve_step(resolution, r, "nodes")
  /\ UNCHANGED nonResolverVars

ResolveNodes ==
  /\ resolution.pc = "nodes"
  /\ \E nodes_resolve \in BOOLEAN :
       resolution' = resolve_step(resolution,
                                  resolve_nodes(resolution.node_ids, resolution.edges,
                                                nodes_resolve), "returned")
  /\ UNCHANGED nonResolverVars

ResolverNext ==
  \/ CollectNodeIds
  \/ ValidateEdges
  \/ DetectCycle
  \/ ResolveNodes

ResolverSpec == ResolverInit /\ [][ResolverNext]_vars

\* Properties of a definition, stated on the lists themselves.
C37_Ids(nodes) == {nodes[i] : i \in 1..Len(nodes)}
C37_HasDuplicate(nodes) == \E i, j \in 1..Len(nodes) : i < j /\ nodes[i] = nodes[j]
C37_HasUndefined(nodes, edges) ==
  \E i \in 1..Len(edges) : edges[i][1] \notin C37_Ids(nodes) \/ edges[i][2] \notin C37_Ids(nodes)
\* a closed walk: a sequence of one to three edges of the list, each starting
\* where the one before ends, that comes back to its start
C37_HasCycle(edges) ==
  \E walk \in UNION {[1..k -> 1..Len(edges)] : k \in 1..3} :
    /\ \A i \in 1..(Len(walk) - 1) : edges[walk[i]][2] = edges[walk[i + 1]][1]
    /\ edges[walk[Len(walk)]][2] = edges[walk[1]][1]

----------------------------------------------------------------------------
(* fuschia-runtime: the trigger node and the ready sets                     *)

\* the error of the Trigger arm of a spawned task, runtime.rs 583-588
TriggerInReady(n) == Error("InvalidGraph", n, "trigger_in_ready")

\* C38: in an invocation of a workflow that passed validation, whenever
\* run_execution_loop is at a point where it computes or has computed a ready
\* set, the trigger node is a key of completed and find_ready_nodes reports
\* no Trigger node; no task is ever spawned for a Trigger node, no task ends
\* with the error "trigger nodes should not be executed", and invoke never
\* returns that error.
C38_NoTriggerReady ==
  (Valid(workflow) /\ pc # "init") =>
    /\ (pc \in {"loop", "wait"} \/ batches > 0) =>
         /\ Triggers \subseteq DOMAIN completed
         /\ find_ready_nodes(workflow, completed) \cap Triggers = {}
    /\ \A i \in 1..Len(handles) : handles[i] \notin Triggers
    /\ \A n \in DOMAIN tasks :
         /\ n \notin Triggers
         /\ tasks[n].error # TriggerInReady(n)
    /\ result.error.reason # "trigger_in_ready"

\* a validated workflow whose edges lead back to its trigger: the trigger has
\* an upstream node that has completed, and it is still not ready.
C38_Witness ==
  /\ Valid(workflow)
  /\ pc = "loop"
  /\ batches >= 1
  /\ \E t \in Triggers :
       /\ t \in DOMAIN completed
       /\ upstream(graph(workflow), t) # <<>>
       /\ \A u \in RangeOf(upstream(graph(workflow), t)) : u \in DOMAIN completed

----------------------------------------------------------------------------
(* fuschia-runtime: batches are awaited as a whole                          *)

\* the tasks of the batch in flight that have not finished, or whose result
\* run_execution_loop has not yet put into completed
Unprocessed == {n \in DOMAIN tasks : tasks[n].status # "finished" \/ n \notin DOMAIN completed}

\* the nodes that are not keys of completed and whose predecessors have all
\* finished without an error
PredecessorsFinished ==
  {m \in NodeIds(workflow) \ DOMAIN completed :
     \A u \in RangeOf(upstream(graph(workflow), m)) :
       \/ u \in DOMAIN completed
       \/ u \in DOMAIN tasks /\ tasks[u].status = "finished" /\ tasks[u].error = NoError}

\* C39: tasks are spawned only by the step at the top of run_execution_loop,
\* and at that point every task spawned before has finished and its result
\* is in completed; so every task of an earlier batch is finished and
\* processed, every predecessor of a dispatched node was processed in an
\* earlier batch, and a node whose predecessors have all finished while a
\* task of the current batch is unfinished or unprocessed has not been
\* dispatched.
C39_LevelSynchronous ==
  /\ [][DOMAIN tasks' # DOMAIN tasks =>
          /\ pc = "loop"
          /\ Unprocessed = {}
          /\ \A n \in DOMAIN tasks' \ DOMAIN tasks : tasks'[n].batch = batches + 1]_vars
  /\ [](\A n \in DOMAIN tasks :
          /\ tasks[n].batch <= batches
          /\ tasks[n].batch < batches => n \notin Unprocessed
          /\ \A u \in RangeOf(upstream(graph(workflow), n)) :
               /\ u \in DOMAIN completed
               /\ u \in DOMAIN tasks => tasks[u].batch < tasks[n].batch)
  /\ [](\A m \in PredecessorsFinished :
          (\E u \in RangeOf(upstream(graph(workflow), m)) : u \in Unprocessed)
            => m \notin DOMAIN tasks)

\* a has finished, its sibling b of the same batch is still running, and c,
\* whose only predecessor is a, has not been dispatched.
C39_Witness ==
  \E a, b \in DOMAIN tasks, c \in PredecessorsFinished :
    /\ a # b
    /\ tasks[a].batch = tasks[b].batch
    /\ tasks[a].status = "finished"
    /\ tasks[a].error = NoError
    /\ tasks[b].status = "running"
    /\ a \in RangeOf(upstream(graph(workflow), c))
    /\ a \notin DOMAIN completed
    /\ c \notin DOMAIN tasks

----------------------------------------------------------------------------
(* fuschia-engine: the events of an execution                               *)

\* the events the notifier received from execution id, in order
EventsOf(id) == SelectSeq(events, LAMBDA e : e.execution_id = id)

TerminalKinds == {"WorkflowCompleted", "WorkflowFailed"}
NodeKinds == {"NodeStarted", "NodeCompleted", "NodeFailed"}

\* evs is WorkflowStarted, then node events only, and at most one terminal
\* event, which is the last one; once execute has returned with outcome, the
\* terminal event is there and matches it.
Bracketed(evs, outcome) ==
  evs # <<>> =>
    /\ evs[1].kind = "WorkflowStarted"
    /\ \A i \in 2..Len(evs) :
         /\ evs[i].kind \in NodeKinds \cup TerminalKinds
         /\ evs[i].kind \in TerminalKinds => i = Len(evs)
    /\ outcome # "running" =>
         evs[Len(evs)].kind = (IF outcome = "Ok" THEN "WorkflowCompleted" ELSE "WorkflowFailed")

\* C40 as stated: the events of every execution that emitted WorkflowStarted
\* are WorkflowStarted first, then NodeStarted, NodeCompleted and NodeFailed
\* events, then exactly one terminal event once execute has returned:
\* WorkflowCompleted if it returned Ok, WorkflowFailed if it returned an
\* error.
C40_TerminalEvent ==
  \A id \in 1..Len(log) : Bracketed(EventsOf(id), log[id].outcome)

\* the same for the executions of a workflow that has a trigger node
TerminalEventWithTrigger ==
  find_trigger_nodes(runner.workflow) # {} => C40_TerminalEvent

\* an execution whose batch failed: its events end with a NodeFailed and the
\* WorkflowFailed that follows it.
TerminalEventReached ==
  \E id \in 1..Len(log) :
    /\ log[id].outcome = "Err"
    /\ Len(EventsOf(id)) >= 4
    /\ EventsOf(id)[Len(EventsOf(id)) - 1].kind = "NodeFailed"
    /\ EventsOf(id)[Len(EventsOf(id))].kind = "WorkflowFailed"
============================================================================
